---- MODULE Spec2Model ----
(***************************************************************************)
(* asynchronet: the interactive session engine (reads that end on a        *)
(* prompt, prompt discovery, IOS-like mode transitions, scoped sessions)   *)
(* and the SSHDetect auto-detect probe, against a device that answers on   *)
(* a byte stream which the transport hands over in arbitrary chunks.       *)
(*                                                                         *)
(* Text is a sequence of one-character strings.  A few elements are whole  *)
(* pieces of text ("atoms"): a search pattern or an invalid-command        *)
(* signature of the rule table stands for a piece of device output that    *)
(* this pattern, and no other, finds.                                      *)
(***************************************************************************)
EXTENDS Integers, Sequences, FiniteSets, TLC

\* ------------------------------------------------------------------ bounds
\* lines the device may leave unanswered in one behaviour
MaxTimeouts == 1
\* calls made in the body of one scoped session
MaxCalls == 2

\* ------------------------------------------------------------------- text
LF == "\n"
CR == "\r"
BS == "\\x08"
CRLF == <<CR, LF>>
Whitespace == {" ", "\t", LF, CR, "\f"}

Range(s) == {s[i] : i \in DOMAIN s}
Take(s, n) == SubSeq(s, 1, IF n < Len(s) THEN n ELSE Len(s))
Drop(s, n) == SubSeq(s, n + 1, Len(s))
\* s[a:b] of Python for 0 <= a and b < 0 given as the count cut at the end
Slice(s, a, cut) == SubSeq(s, a + 1, Len(s) - cut)

\* Python: needle in hay
Contains(hay, needle) ==
  \E i \in 0..(Len(hay) - Len(needle)) : SubSeq(hay, i + 1, i + Len(needle)) = needle

Upper == <<"A","B","C","D","E","F","G","H","I","J","K","L","M","N","O","P","Q","R","S","T","U","V","W","X","Y","Z">>
Lower == <<"a","b","c","d","e","f","g","h","i","j","k","l","m","n","o","p","q","r","s","t","u","v","w","x","y","z">>
FoldChar(c) == IF \E i \in DOMAIN Upper : Upper[i] = c
               THEN Lower[CHOOSE i \in DOMAIN Upper : Upper[i] = c] ELSE c
Fold(s) == [i \in DOMAIN s |-> FoldChar(s[i])]

\* str.strip()
RECURSIVE LStrip(_)
LStrip(s) == IF s /= <<>> /\ Head(s) \in Whitespace THEN LStrip(Tail(s)) ELSE s
RECURSIVE RStrip(_)
RStrip(s) == IF s /= <<>> /\ s[Len(s)] \in Whitespace THEN RStrip(SubSeq(s, 1, Len(s) - 1)) ELSE s
Strip(s) == LStrip(RStrip(s))

\* str.rstrip("\n")
RECURSIVE RStripLF(_)
RStripLF(s) == IF s /= <<>> /\ s[Len(s)] = LF THEN RStripLF(SubSeq(s, 1, Len(s) - 1)) ELSE s

\* str.split(sep) for a one-character separator
RECURSIVE SplitFrom(_, _, _, _)
SplitFrom(s, sep, i, cur) ==
  IF i > Len(s) THEN <<cur>>
  ELSE IF s[i] = sep THEN <<cur>> \o SplitFrom(s, sep, i + 1, <<>>)
  ELSE SplitFrom(s, sep, i + 1, Append(cur, s[i]))
Split(s, sep) == SplitFrom(s, sep, 1, <<>>)

\* sep.join(parts)
RECURSIVE Join(_, _)
Join(parts, sep) ==
  IF parts = <<>> THEN <<>>
  ELSE IF Len(parts) = 1 THEN parts[1]
  ELSE parts[1] \o <<sep>> \o Join(Tail(parts), sep)

\* _normalize_linefeeds: re.sub(r"(\r\r\n|\r\n|\n\r)", "\n", s), leftmost match,
\* alternatives tried in order
RECURSIVE NormFrom(_, _)
NormFrom(s, i) ==
  IF i > Len(s) THEN <<>>
  ELSE IF i + 2 <= Len(s) /\ SubSeq(s, i, i + 2) = <<CR, CR, LF>> THEN <<LF>> \o NormFrom(s, i + 3)
  ELSE IF i + 1 <= Len(s) /\ SubSeq(s, i, i + 1) = <<CR, LF>> THEN <<LF>> \o NormFrom(s, i + 2)
  ELSE IF i + 1 <= Len(s) /\ SubSeq(s, i, i + 1) = <<LF, CR>> THEN <<LF>> \o NormFrom(s, i + 2)
  ELSE <<s[i]>> \o NormFrom(s, i + 1)
\* a character that is neither \r nor \n is part of no match, so the text on
\* its two sides is substituted on its own: long texts are cut at such places
RECURSIVE NormParts(_)
NormParts(s) ==
  LET cuts == {k \in 1..(Len(s) - 1) : s[k] \notin {CR, LF}}
      dist(k) == IF 2 * k >= Len(s) THEN 2 * k - Len(s) ELSE Len(s) - 2 * k
  IN IF Len(s) <= 16 \/ cuts = {} THEN NormFrom(s, 1)
     ELSE LET k == CHOOSE k \in cuts : \A j \in cuts : dist(k) <= dist(j)
          IN NormParts(SubSeq(s, 1, k)) \o NormParts(SubSeq(s, k + 1, Len(s)))
normalize_linefeeds(a_string) == NormParts(a_string)

\* CiscoNXOS._normalize_linefeeds: re.sub(r"(\r\r\n|\r\n)", "\n", s).replace("\r", "")
RECURSIVE NormNXFrom(_, _)
NormNXFrom(s, i) ==
  IF i > Len(s) THEN <<>>
  ELSE IF i + 2 <= Len(s) /\ SubSeq(s, i, i + 2) = <<CR, CR, LF>> THEN <<LF>> \o NormNXFrom(s, i + 3)
  ELSE IF i + 1 <= Len(s) /\ SubSeq(s, i, i + 1) = <<CR, LF>> THEN <<LF>> \o NormNXFrom(s, i + 2)
  ELSE <<s[i]>> \o NormNXFrom(s, i + 1)
nxos_normalize_linefeeds(a_string) == SelectSeq(NormNXFrom(a_string, 1), LAMBDA c : c /= CR)

\* str.replace("\n\n", "\n"): the occurrences from the left, none overlapping
RECURSIVE SqueezeFrom(_, _)
SqueezeFrom(s, i) ==
  IF i > Len(s) THEN <<>>
  ELSE IF i + 1 <= Len(s) /\ SubSeq(s, i, i + 1) = <<LF, LF>> THEN <<LF>> \o SqueezeFrom(s, i + 2)
  ELSE <<s[i]>> \o SqueezeFrom(s, i + 1)
\* FujitsuSwitch._normalize_linefeeds
fujitsu_normalize_linefeeds(a_string) == SqueezeFrom(NormFrom(a_string, 1), 1)

\* a _strip_prompt that never drops a line
strip_prompt_never(a_string, bp) == a_string

\* _strip_prompt: drop the last line if base_prompt is a substring of it
strip_prompt(a_string, bp) ==
  LET response_list == Split(a_string, LF)
      last_line == response_list[Len(response_list)]
  IN IF Contains(last_line, bp)
     THEN Join(SubSeq(response_list, 1, Len(response_list) - 1), LF)
     ELSE a_string

\* a _strip_command that leaves the echo in place
strip_command_never(command_string, out) == out

\* _strip_command: with a backspace in the output drop the backspaces and the
\* first line, else cut len(command_string) characters
strip_command(command_string, out) ==
  IF BS \in Range(out)
  THEN LET cleaned == SelectSeq(out, LAMBDA c : c /= BS)
       IN Join(Tail(Split(cleaned, LF)), LF)
  ELSE Drop(out, Len(command_string))

\* ---------------------------------------------------------------- patterns
\* A regular expression is a tree; Ends gives the offsets where a match that
\* starts at one of the offsets I can end.  Greedy and lazy repetition differ in
\* which end is preferred, not in which ends exist, and the sessions only ask
\* whether re.search finds a match.
Lit(t) == [k |-> "lit", t |-> t]
Set(cs) == [k |-> "set", cs |-> cs]
Dot == [k |-> "dot"]
Cat(rs) == [k |-> "cat", rs |-> rs]
Opt(r) == [k |-> "opt", r |-> r]
Star(r) == [k |-> "star", r |-> r]
Plus(r) == Cat(<<r, Star(r)>>)
\* the pattern "": finds a match in any text
EmptyPat == Cat(<<>>)

Digits == {"0","1","2","3","4","5","6","7","8","9"}
\* \w
WordChars == Range(Upper) \cup Range(Lower) \cup Digits \cup {"_"}

RECURSIVE Ends(_, _, _), CatEnds(_, _, _, _), Closure(_, _, _, _)
Ends(re, s, I) ==
  IF I = {} THEN {}
  ELSE CASE re.k = "lit" /\ re.t = <<>> -> I
         [] re.k = "lit" /\ re.t /= <<>> ->
              {i + Len(re.t) : i \in {j \in I : /\ j + Len(re.t) <= Len(s)
                                                /\ s[j + 1] = re.t[1]
                                                /\ SubSeq(s, j + 1, j + Len(re.t)) = re.t}}
         [] re.k = "set" -> {i + 1 : i \in {j \in I : j < Len(s) /\ s[j + 1] \in re.cs}}
         [] re.k = "dot" -> {i + 1 : i \in {j \in I : j < Len(s) /\ s[j + 1] /= LF}}
         [] re.k = "cat" -> CatEnds(re.rs, 1, s, I)
         [] re.k = "opt" -> I \cup Ends(re.r, s, I)
         [] re.k = "star" -> Closure(re.r, s, I, I)
\* the parts rs[n], rs[n + 1], ... one after the other
CatEnds(rs, n, s, I) ==
  IF n > Len(rs) \/ I = {} THEN I ELSE CatEnds(rs, n + 1, s, Ends(rs[n], s, I))
Closure(r, s, seen, frontier) ==
  LET new == Ends(r, s, frontier) \ seen
  IN IF new = {} THEN seen ELSE Closure(r, s, seen \cup new, new)

\* re.IGNORECASE on the pattern's side
RECURSIVE FoldRe(_)
FoldRe(re) ==
  CASE re.k = "lit" -> Lit(Fold(re.t))
    [] re.k = "set" -> Set({FoldChar(c) : c \in re.cs})
    [] re.k = "dot" -> re
    [] re.k = "cat" -> Cat([i \in DOMAIN re.rs |-> FoldRe(re.rs[i])])
    [] re.k = "opt" -> Opt(FoldRe(re.r))
    [] re.k = "star" -> Star(FoldRe(re.r))

\* bool(re.search(p, s, flags)): icase is re.IGNORECASE
Search(p, s, icase) ==
  IF icase THEN Ends(FoldRe(p), Fold(s), 0..Len(s)) /= {}
  ELSE Ends(p, s, 0..Len(s)) /= {}

\* "|".join(map(re.escape, delimiter_list)) used as a pattern of its own: one of
\* the delimiters
delimiters_alt(delimiter_list) == Set(Range(delimiter_list))
\* the same text between [ and ]: the joining "|" becomes a member of the class
delimiters_class(delimiter_list) ==
  Set(Range(delimiter_list) \cup (IF Len(delimiter_list) > 1 THEN {"|"} ELSE {}))


\* ------------------------------------------------------------- ANSI codes
\* chr(27)
ESC == "\\x1b"
\* re.sub(pattern, repl, text) for a pattern that matches no empty text: the
\* leftmost match is replaced and the scan goes on behind it
RECURSIVE SubFrom(_, _, _, _)
SubFrom(re, repl, s, i) ==
  IF i >= Len(s) THEN <<>>
  ELSE LET e == Ends(re, s, {i})
       IN IF e = {} THEN <<s[i + 1]>> \o SubFrom(re, repl, s, i + 1)
          ELSE repl \o SubFrom(re, repl, s, CHOOSE m \in e : \A n \in e : n <= m)
re_sub(re, repl, s) == SubFrom(re, repl, s, 0)

code_save_cursor == Lit(<<ESC, "7">>)
code_scroll_screen == Lit(<<ESC, "[", "r">>)
code_restore_cursor == Lit(<<ESC, "8">>)
code_cursor_up == Cat(<<Lit(<<ESC, "[">>), Plus(Set(Digits)), Lit(<<"A">>)>>)
code_cursor_down == Cat(<<Lit(<<ESC, "[">>), Plus(Set(Digits)), Lit(<<"B">>)>>)
code_position_cursor ==
  Cat(<<Lit(<<ESC, "[">>), Plus(Set(Digits)), Lit(<<";">>), Plus(Set(Digits)), Lit(<<"H">>)>>)
code_show_cursor == Lit(<<ESC, "[", "?", "2", "5", "h">>)
code_next_line == Lit(<<ESC, "E">>)
code_erase_line_from_cursor == Lit(<<ESC, "[", "K">>)
code_erase_line == Lit(<<ESC, "[", "2", "K">>)
code_enable_scroll ==
  Cat(<<Lit(<<ESC, "[">>), Plus(Set(Digits)), Lit(<<";">>), Plus(Set(Digits)), Lit(<<"r">>)>>)
code_set ==
  << code_save_cursor, code_scroll_screen, code_restore_cursor, code_cursor_up,
     code_cursor_down, code_position_cursor, code_show_cursor, code_erase_line,
     code_erase_line_from_cursor, code_enable_scroll >>

\* for ansi_esc_code in code_set: output = re.sub(ansi_esc_code, "", output)
RECURSIVE StripCodes(_, _)
StripCodes(n, s) == IF n > Len(code_set) THEN s ELSE StripCodes(n + 1, re_sub(code_set[n], <<>>, s))
\* _strip_ansi_escape_codes(string_buffer)
strip_ansi_escape_codes(string_buffer) ==
  re_sub(code_next_line, <<LF>>, StripCodes(1, string_buffer))

\* ------------------------------------------------------------- properties
IsPrefix(a, b) == Len(a) <= Len(b) /\ SubSeq(b, 1, Len(a)) = a

\* ------------------------------------------------------------ rule table
\* asyncssh read size of one transport read
MAX_BUFFER == 65535
\* characters of base_prompt that go into base_pattern
PROMPT_CUT == 12

cmd_show_system == <<"s","h","o","w"," ","s","y","s","t","e","m">>
cmd_show_version == <<"s","h","o","w"," ","v","e","r","s","i","o","n">>
cmd_software_show == <<"s","o","f","t","w","a","r","e"," ","s","h","o","w">>
cmd_show_sys_version == <<"s","h","o","w"," ","s","y","s"," ","v","e","r","s","i","o","n">>
cmd_cat__etc_issue == <<"c","a","t"," ","/","e","t","c","/","i","s","s","u","e">>
cmd_display_version == <<"d","i","s","p","l","a","y"," ","v","e","r","s","i","o","n">>
cmd_uname__a == <<"u","n","a","m","e"," ","-","a">>
cmd_show_inventory == <<"s","h","o","w"," ","i","n","v","e","n","t","o","r","y">>
cmd_show_copyright == <<"s","h","o","w"," ","c","o","p","y","r","i","g","h","t">>
cmd_get_system_status == <<"g","e","t"," ","s","y","s","t","e","m"," ","s","t","a","t","u","s">>
cmd_show_system_info == <<"s","h","o","w"," ","s","y","s","t","e","m"," ","i","n","f","o">>
cmd_show_system_package_info == <<"s","h","o","w"," ","s","y","s","t","e","m"," ","p","a","c","k","a","g","e","-","i","n","f","o">>

SSH_MAPPER_DICT ==
  << [family |-> "alcatel_aos", cmd |-> cmd_show_system,
      search_patterns |-> <<"Alcatel-Lucent">>, priority |-> 99],
     [family |-> "alcatel_sros", cmd |-> cmd_show_version,
      search_patterns |-> <<"Nokia", "Alcatel">>, priority |-> 99],
     [family |-> "apresia_aeos", cmd |-> cmd_show_system,
      search_patterns |-> <<"Apresia">>, priority |-> 99],
     [family |-> "arista_eos", cmd |-> cmd_show_version,
      search_patterns |-> <<"Arista">>, priority |-> 99],
     [family |-> "ciena_saos", cmd |-> cmd_software_show,
      search_patterns |-> <<"saos">>, priority |-> 99],
     [family |-> "cisco_asa", cmd |-> cmd_show_version,
      search_patterns |-> <<"Cisco Adaptive Security Appliance", "Cisco ASA">>, priority |-> 99],
     [family |-> "cisco_ios", cmd |-> cmd_show_version,
      search_patterns |-> <<"Cisco IOS Software", "Cisco Internetwork Operating System Software">>, priority |-> 99],
     [family |-> "cisco_ios_xe", cmd |-> cmd_show_version,
      search_patterns |-> <<"Cisco IOS XE Software", "Cisco IOS-XE software", "IOS-XE ROMMON">>, priority |-> 99],
     [family |-> "cisco_nxos", cmd |-> cmd_show_version,
      search_patterns |-> <<"Cisco Nexus Operating System", "NX-OS">>, priority |-> 99],
     [family |-> "cisco_xr", cmd |-> cmd_show_version,
      search_patterns |-> <<"Cisco IOS XR">>, priority |-> 99],
     [family |-> "dell_force10", cmd |-> cmd_show_version,
      search_patterns |-> <<"Real Time Operating System Software">>, priority |-> 99],
     [family |-> "dell_os9", cmd |-> cmd_show_system,
      search_patterns |-> <<"Dell Application Software Version:  9", "Dell Networking OS Version : 9">>, priority |-> 99],
     [family |-> "dell_os10", cmd |-> cmd_show_version,
      search_patterns |-> <<"Dell EMC Networking OS10.Enterprise">>, priority |-> 99],
     [family |-> "dell_powerconnect", cmd |-> cmd_show_system,
      search_patterns |-> <<"PowerConnect">>, priority |-> 99],
     [family |-> "f5_tmsh", cmd |-> cmd_show_sys_version,
      search_patterns |-> <<"BIG-IP">>, priority |-> 99],
     [family |-> "f5_linux", cmd |-> cmd_cat__etc_issue,
      search_patterns |-> <<"BIG-IP">>, priority |-> 99],
     [family |-> "hp_comware", cmd |-> cmd_display_version,
      search_patterns |-> <<"HPE Comware", "HP Comware">>, priority |-> 99],
     [family |-> "huawei", cmd |-> cmd_display_version,
      search_patterns |-> <<"Huawei Technologies", "Huawei Versatile Routing Platform Software">>, priority |-> 99],
     [family |-> "juniper_junos", cmd |-> cmd_show_version,
      search_patterns |-> <<"JUNOS Software Release", "JUNOS .+ Software", "JUNOS OS Kernel", "JUNOS Base Version">>, priority |-> 99],
     [family |-> "linux", cmd |-> cmd_uname__a,
      search_patterns |-> <<"Linux">>, priority |-> 99],
     [family |-> "extreme_exos", cmd |-> cmd_show_version,
      search_patterns |-> <<"ExtremeXOS">>, priority |-> 99],
     [family |-> "extreme_netiron", cmd |-> cmd_show_version,
      search_patterns |-> <<"(NetIron|MLX)">>, priority |-> 99],
     [family |-> "extreme_slx", cmd |-> cmd_show_version,
      search_patterns |-> <<"SLX-OS Operating System Software">>, priority |-> 99],
     [family |-> "extreme_tierra", cmd |-> cmd_show_version,
      search_patterns |-> <<"TierraOS Software">>, priority |-> 99],
     [family |-> "ubiquiti_edgeswitch", cmd |-> cmd_show_version,
      search_patterns |-> <<"EdgeSwitch">>, priority |-> 99],
     [family |-> "cisco_wlc_85", cmd |-> cmd_show_inventory,
      search_patterns |-> <<"Cisco Wireless Controller">>, priority |-> 99],
     [family |-> "mellanox_mlnxos", cmd |-> cmd_show_version,
      search_patterns |-> <<"Onyx", "SX_PPC_M460EX">>, priority |-> 99],
     [family |-> "yamaha", cmd |-> cmd_show_copyright,
      search_patterns |-> <<"Yamaha Corporation">>, priority |-> 99],
     [family |-> "fortinet", cmd |-> cmd_get_system_status,
      search_patterns |-> <<"FortiOS", "FortiGate">>, priority |-> 99],
     [family |-> "paloalto_panos", cmd |-> cmd_show_system_info,
      search_patterns |-> <<"model:\\s+PA">>, priority |-> 99],
     [family |-> "supermicro_smis", cmd |-> cmd_show_system_info,
      search_patterns |-> <<"Super Micro Computer">>, priority |-> 99],
     [family |-> "flexvnf", cmd |-> cmd_show_system_package_info,
      search_patterns |-> <<"Versa FlexVNF">>, priority |-> 99] >>

\* cmd_count: rules sharing a cmd
cmd_count(dict, cmd) == Cardinality({i \in DOMAIN dict : dict[i].cmd = cmd})

\* sorted(items, key=...): stable, ascending; keys[i] is the key of items[i]
RECURSIVE InsertKeyed(_, _)
InsertKeyed(sorted, kv) ==
  IF sorted = <<>> THEN <<kv>>
  ELSE IF kv[1] < Head(sorted)[1] THEN <<kv>> \o sorted
  ELSE <<Head(sorted)>> \o InsertKeyed(Tail(sorted), kv)
RECURSIVE SortKeyed(_)
SortKeyed(kvs) ==
  IF kvs = <<>> THEN <<>>
  ELSE InsertKeyed(SortKeyed(SubSeq(kvs, 1, Len(kvs) - 1)), kvs[Len(kvs)])
SortedByKey(items, keys) ==
  LET sorted == SortKeyed([i \in DOMAIN items |-> <<keys[i], items[i]>>])
  IN [i \in DOMAIN items |-> sorted[i][2]]
Reverse(s) == [i \in DOMAIN s |-> s[Len(s) + 1 - i]]

\* SSH_MAPPER_BASE of a rule table: sorted by cmd_count, then reversed
mapper_base(dict) ==
  Reverse(SortedByKey(dict, [i \in DOMAIN dict |-> cmd_count(dict, dict[i].cmd)]))
SSH_MAPPER_BASE == mapper_base(SSH_MAPPER_DICT)

invalid_responses ==
  << "% Invalid input detected", "syntax error, expecting", "Error: Unrecognized command",
     "%Error", "command not found", "Syntax Error: unexpected argument",
     "% Unrecognized command found at" >>

\* re.search of a table pattern in a response: text is modelled down to the
\* pieces the table's patterns find, one atom per pattern
FindsAtom(pattern, response) == pattern \in Range(response)

\* ------------------------------------------------------------------ state
VARIABLES
  dialect,            \* the session's class, by its device_type
  secret,             \* the session's _secret
  preempt_privilege,  \* HW1000's _preempt_privilege; False in every other class
  delimeter_list,     \* Terminal's constructor argument: <<>> for None, <<list>> for a list
  op,                 \* the call of the session's interface in progress, or the last one
  pc,                 \* where that call is suspended; "idle" between calls
  todo,               \* config commands send_config_set has not written yet
  output, found,      \* the buffer of the read in progress; found: its search succeeded
  base_prompt, base_pattern,
  err,                \* the exception that ended the last call, "none" if it returned
  result,             \* what the last call returned
  writes,             \* every line written to stdin, in order
  transports,         \* every transport opened, "open" or "closed"; _conn is the last
  steps,              \* the steps connect has begun, in order
  calls,              \* calls made in the body of the scoped session
  call,               \* the arguments of the call in progress and what it has gathered
  log,                \* [cmd, out] of every send_command that returned
  after_timeout,      \* the calls that wrote a line after a read had timed out
  potential_matches,  \* insertion-ordered dict: <<family, accuracy>>
  rule_idx,           \* position of autodetect's loop in SSH_MAPPER_BASE
  scores,             \* accuracy of every rule evaluated so far, in order
  timeouts,           \* read timeouts so far
  inbox,              \* lines the device has not yet answered
  stream,             \* bytes the device sent that no read has returned yet
  dev                 \* the device

vars == <<dialect, secret, preempt_privilege, delimeter_list, op, pc, todo, output, found, base_prompt,
          base_pattern, err,
          result, writes, transports, steps, calls, call, log, after_timeout,
          potential_matches, rule_idx, scores, timeouts, inbox, stream, dev>>

\* what a call leaves alone unless it says otherwise
sessionVars == <<dialect, secret, preempt_privilege, delimeter_list>>
detectVars == <<potential_matches, rule_idx, scores>>
promptVars == <<base_prompt, base_pattern>>
outcomeVars == <<err, result>>
callVars == <<calls, call, log, todo>>

None == "None"

\* the arguments of a call, with their defaults, and the output it has gathered:
\* `out` in the vendor's send_config_set, `part` in the base class's
NoCall == [strip_command |-> TRUE, strip_prompt |-> TRUE, iterable |-> TRUE,
           exit_config_mode |-> TRUE, with_commit |-> TRUE, commit_comment |-> <<>>,
           out |-> <<>>, part |-> <<>>]

\* ---------------------------------------------------------------- dialects
IOSLike == {"cisco_ios", "cisco_asa", "fujitsu_switch", "ubiquity_edge", "aruba_aos_6",
            "aruba_aos_8"}
ComwareLike == {"hp_comware", "huawei"}
\* IOS XR derives from IOSLikeDevice too
IOSFamily == IOSLike \cup {"cisco_ios_xr"}
\* the classes with enable_mode and exit_enable_mode
EnableFamily == IOSFamily \cup {"hw1000"}
Dialects == IOSLike \cup ComwareLike \cup
            {"alcatel_aos", "juniper_junos", "mikrotik_routeros", "terminal"}

\* class attributes
delimiter_list(d) ==
  CASE d = "terminal" -> <<"$", "#">>
    [] d \in ComwareLike -> <<">", "]">>
    [] d = "juniper_junos" -> <<"%", ">", "#">>
    [] OTHER -> <<">", "#">>
delimiter_left_list(d) == <<"<", "[">>
disable_paging_command(d) ==
  CASE d \in {"aruba_aos_6", "aruba_aos_8"} -> <<"n","o"," ","p","a","g","i","n","g">>
    [] d = "fujitsu_switch" -> <<"n","o"," ","p","a","g","e","r">>
    [] d = "cisco_asa" -> <<"t","e","r","m","i","n","a","l"," ","p","a","g","e","r"," ","0">>
    [] d = "hp_comware" ->
         <<"s","c","r","e","e","n","-","l","e","n","g","t","h"," ","d","i","s","a","b","l","e">>
    [] d = "huawei" ->
         <<"s","c","r","e","e","n","-","l","e","n","g","t","h"," ","0"," ",
           "t","e","m","p","o","r","a","r","y">>
    [] d = "juniper_junos" ->
         <<"s","e","t"," ","c","l","i"," ","s","c","r","e","e","n","-","l","e","n","g","t","h"," ","0">>
    [] OTHER -> <<"t","e","r","m","i","n","a","l"," ","l","e","n","g","t","h"," ","0">>
priv_enter(d) == <<"e","n","a","b","l","e">>
\* a check_enable_mode that every prompt passes
priv_check_any(d) == <<>>
priv_check(d) == <<"#">>
priv_exit(d) == IF d = "hw1000" THEN <<"e","x","i","t">> ELSE <<"d","i","s","a","b","l","e">>
\* ComwareLikeDevice's system view and JunOSLikeDevice's configuration mode
system_view_enter == <<"s","y","s","t","e","m","-","v","i","e","w">>
system_view_exit == <<"r","e","t","u","r","n">>
system_view_check == <<"]">>
junos_config_enter == <<"c","o","n","f","i","g","u","r","e">>
junos_config_exit ==
  <<"e","x","i","t"," ","c","o","n","f","i","g","u","r","a","t","i","o","n","-","m","o","d","e">>
junos_config_check == <<"#">>
\* "commit comment {}".format(commit_comment)
commit_comment_command(commit_comment) ==
  <<"c","o","m","m","i","t"," ","c","o","m","m","e","n","t"," ">> \o commit_comment
config_enter(d) ==
  CASE d = "fujitsu_switch" -> <<"c","o","n","f">>
    [] d = "ubiquity_edge" -> <<"c","o","n","f","i","g","u","r","e">>
    [] d \in ComwareLike -> system_view_enter
    [] d = "juniper_junos" -> junos_config_enter
    [] OTHER -> <<"c","o","n","f"," ","t">>
config_exit(d) ==
  CASE d \in ComwareLike -> system_view_exit
    [] d = "juniper_junos" -> junos_config_exit
    [] OTHER -> <<"e","n","d">>
\* a check_config_mode that the privileged prompt passes too
config_check_any(d) == <<"#">>
\* a check_config_mode that no prompt passes
config_check(d) ==
  CASE d = "aruba_aos_6" -> <<")"," ","(","c","o","n","f","i","g">>
    [] d = "aruba_aos_8" -> <<"]"," ","(","c","o","n","f","i","g">>
    [] d \in ComwareLike -> system_view_check
    [] d = "juniper_junos" -> junos_config_check
    [] OTHER -> <<")","#">>
cli_check(d) == <<">">>
cli_command(d) == <<"c","l","i">>
show_mode == <<"s","h","o","w"," ","m","o","d","e">>
password == <<"p","a","s","s","w","o","r","d">>

\* HW1000's class attributes
shell_enter == <<"a","d","m","i","n"," ","e","s","c">>
shell_exit == <<"e","x","i","t">>
shell_check == <<"s","h">>
shell_enter_message ==
  <<"A","r","e"," ","y","o","u"," ","s","u","r","e"," ","y","o","u"," ","w","a","n","t"," ",
    "t","o"," ","e","x","i","t"," ","t","o"," ","t","h","e"," ","L","i","n","u","x"," ",
    "s","y","s","t","e","m"," ","s","h","e","l","l","?">>
priv_confirm_message ==
  <<"A","r","e"," ","y","o","u"," ","s","u","r","e"," ","y","o","u"," ","w","a","n","t"," ",
    "t","o"," ","f","o","r","c","e"," ","t","e","r","m","i","n","a","t","i","o","n"," ",
    "o","f"," ","t","h","e"," ","s","p","e","c","i","f","i","e","d"," ",
    "s","e","s","s","i","o","n">>
\* r"[\>|\#]", the pattern of HW1000's reads around the shell
shell_delimiters == Set({">", "|", "#"})
answer_yes == <<"Y","e","s">>

\* CiscoIOSXR's class attributes and the texts its send_config_set and
\* exit_config_mode look for
commit_command == <<"c", "o", "m", "m", "i", "t">>
abort_command == <<"a", "b", "o", "r", "t">>
show_config_failed ==
  <<"s", "h", "o", "w", " ", "c", "o", "n", "f", "i", "g", "u", "r", "a", "t", "i", "o", "n", " ", "f", "a", "i", "l", "e", "d">>
show_commit_changes ==
  <<"s", "h", "o", "w", " ", "c", "o", "n", "f", "i", "g", "u", "r", "a", "t", "i", "o", "n", " ", "c", "o", "m", "m", "i", "t", " ", "c", "h", "a", "n", "g", "e", "s">>
proceed_anyway ==
  <<"D", "o", " ", "y", "o", "u", " ", "w", "i", "s", "h", " ", "t", "o", " ", "p", "r", "o", "c", "e", "e", "d", " ", "w", "i", "t", "h", " ", "t", "h", "i", "s", " ", "c", "o", "m", "m", "i", "t", " ", "a", "n", "y", "w", "a", "y", "?">>
\* a text no answer holds
failed_to_commit_never == <<"x">>
failed_to_commit == <<"F", "a", "i", "l", "e", "d", " ", "t", "o", " ", "c", "o", "m", "m", "i", "t">>
commits_occurred ==
  <<"O", "n", "e", " ", "o", "r", " ", "m", "o", "r", "e", " ", "c", "o", "m", "m", "i", "t", "s", " ", "h", "a", "v", "e", " ", "o", "c", "c", "u", "r", "r", "e", "d">>
uncommitted_found ==
  <<"U", "n", "c", "o", "m", "m", "i", "t", "t", "e", "d", " ", "c", "h", "a", "n", "g", "e", "s", " ", "f", "o", "u", "n", "d">>
answer_no == <<"n", "o">>

\* _normalize_cmd: one trailing newline (Mikrotik: a carriage return)
normalize_cmd(d, command) ==
  RStripLF(command) \o (IF d = "mikrotik_routeros" THEN <<CR>> ELSE <<LF>>)

\* the _normalize_linefeeds of the session's class
normalize_linefeeds_of(d, a_string) ==
  CASE d = "cisco_nxos" -> nxos_normalize_linefeeds(a_string)
    [] d = "fujitsu_switch" -> fujitsu_normalize_linefeeds(a_string)
    [] OTHER -> normalize_linefeeds(a_string)

\* (\(.*?\))?
paren_group == Opt(Cat(<<Lit(<<"(">>), Star(Dot), Lit(<<")">>)>>))
\* [\-\w]*
name_tail == Star(Set(WordChars \cup {"-"}))

\* type(self)._pattern formatted by _set_base_prompt with re.escape(prompt[:12])
\* and the joined delimiters
pattern(d, prompt) ==
  LET p == Lit(Take(prompt, PROMPT_CUT))
      ds == delimiters_class(delimiter_list(d))
  IN CASE d \in {"fujitsu_switch", "ubiquity_edge"} ->
            Cat(<<Lit(<<"(">>), p, Star(Dot), Lit(<<")", " ">>), paren_group, ds>>)
       [] d = "aruba_aos_6" ->
            Cat(<<Lit(<<"(">>), p, Star(Dot), Lit(<<")", " ">>), paren_group,
                  Opt(Set(Whitespace)), ds>>)
       [] d = "aruba_aos_8" ->
            Cat(<<Lit(<<"(">>), p, Star(Dot), Lit(<<")", " ">>), Opt(Set({"*", "^"})),
                  Lit(<<"[">>), Star(Dot), Lit(<<"]", " ">>), paren_group,
                  Opt(Set(Whitespace)), ds>>)
       [] d \in ComwareLike ->
            Cat(<<delimiters_class(delimiter_left_list(d)), p, name_tail, ds>>)
       [] d = "juniper_junos" ->
            Cat(<<Plus(Set(WordChars)), Opt(Cat(<<Lit(<<"@">>), name_tail>>)), ds>>)
       [] d = "mikrotik_routeros" ->
            Cat(<<Lit(<<"[">>), Star(Dot), Lit(<<"]", " ">>),
                  Opt(Cat(<<Lit(<<"/">>), Star(Dot)>>)), Lit(<<">">>)>>)
       [] d = "terminal" -> ds
       [] OTHER -> Cat(<<p, Star(Dot), paren_group, ds>>)

\* _base_pattern as __init__ leaves it: "", or Mikrotik's doubled prompt
\* \[.*?\] \>.*\[.*?\] \>
initial_base_pattern(d) ==
  IF d = "mikrotik_routeros"
  THEN Cat(<<Lit(<<"[">>), Star(Dot), Lit(<<"]", " ", ">">>), Star(Dot),
             Lit(<<"[">>), Star(Dot), Lit(<<"]", " ", ">">>)>>)
  ELSE EmptyPat

\* re.sub(r"^HRP_.", "", prompt, flags=re.M)
strip_hrp(prompt) ==
  LET cut(line) == IF Len(line) >= 5 /\ SubSeq(line, 1, 4) = <<"H","R","P","_">>
                   THEN Drop(line, 5) ELSE line
      lines == Split(prompt, LF)
  IN Join([i \in DOMAIN lines |-> cut(lines[i])], LF)

\* prompt.split("@")[1] if "@" in prompt
after_at(prompt) == IF "@" \in Range(prompt) THEN Split(prompt, "@")[2] ELSE prompt

\* one cut, that of the `(R1) >` prompts, for every dialect
base_prompt_cut_3(d, prompt) == Slice(prompt, 1, 3)

\* what _set_base_prompt stores as _base_prompt, from the prompt _find_prompt gave
base_prompt_of(d, prompt) ==
  CASE d \in {"fujitsu_switch", "ubiquity_edge", "aruba_aos_6"} -> Slice(prompt, 1, 3)
    [] d = "aruba_aos_8" -> Slice(Split(prompt, ")")[1], 1, 0)
    [] d = "cisco_asa" -> Split(Slice(prompt, 0, 1), "/")[1]
    [] d = "hp_comware" -> Slice(prompt, 1, 1)
    [] d = "huawei" -> Slice(strip_hrp(prompt), 1, 1)
    [] d = "juniper_junos" -> after_at(Slice(prompt, 0, 1))
    [] d = "mikrotik_routeros" -> after_at(Slice(prompt, 1, 3))
    [] OTHER -> Slice(prompt, 0, 1)

\* the steps of connect, in the order of the dialect's connect()
connect_steps(d) ==
  CASE d \in {"terminal", "mikrotik_routeros"} -> <<"establish", "set_base_prompt">>
    [] d = "cisco_asa" -> <<"establish", "set_base_prompt", "enable_mode", "disable_paging",
                            "check_multiple_mode">>
    [] d \in IOSFamily -> <<"establish", "set_base_prompt", "enable_mode", "disable_paging">>
    [] d = "hw1000" -> <<"establish", "set_base_prompt", "enable_mode">>
    [] d = "juniper_junos" -> <<"establish", "set_base_prompt", "cli_mode", "disable_paging">>
    [] OTHER -> <<"establish", "set_base_prompt", "disable_paging">>

\* ----------------------------------------------------------------- device
\* The device at the other end of the transport: it reads one line at a time and
\* answers with the echo of the line, a body and its prompt.  Its greeting and
\* its bodies hold no delimiter unless a command below says so.
hostname == <<"R", "1">>
GoodSecret == <<"s", "3", "c">>
BadSecret == <<"b", "a", "d">>

\* the name in the prompt of HW1000's Linux shell
shell_name == <<"s", "h", "-", "4", ".", "2">>

\* the prompt of a device of kind k in a mode; "subconfig" is a mode below
\* config, such as the configuration of an interface
DevPrompt(d) ==
  LET k == d.kind
      m == d.mode
      host == d.name
      end == IF m = "user" THEN <<">">> ELSE <<"#">>
      tag(config, sub) == IF m = "config" THEN config ELSE IF m = "subconfig" THEN sub ELSE <<>>
  IN CASE k \in {"fujitsu_switch", "ubiquity_edge"} ->
            <<"(">> \o host \o <<")", " ">> \o
            tag(<<"(","C","o","n","f","i","g",")">>,
                <<"(","I","n","t","e","r","f","a","c","e"," ","0","/","1",")">>) \o end
       [] k = "aruba_aos_6" ->
            <<"(">> \o host \o <<")", " ">> \o
            tag(<<"(","c","o","n","f","i","g",")"," ">>,
                <<"(","c","o","n","f","i","g","-","i","f",")">>) \o end
       [] k = "aruba_aos_8" ->
            <<"(">> \o host \o <<")", " ", "[", "m", "d", "]", " ">> \o
            tag(<<"(","c","o","n","f","i","g",")"," ">>,
                <<"(","c","o","n","f","i","g","-","i","f",")"," ">>) \o end
       [] k = "cisco_asa" ->
            host \o <<"/", "c", "1">> \o
            tag(<<"(","c","o","n","f","i","g",")">>,
                <<"(","c","o","n","f","i","g","-","i","f",")">>) \o end
       [] k = "alcatel_aos" -> host \o <<"-", ">">>
       [] k \in ComwareLike ->
            (IF d.hrp THEN <<"H","R","P","_","M">> ELSE <<>>) \o
            (IF m = "config" THEN <<"[">> \o host \o <<"]">>
                             ELSE <<"<">> \o host \o <<">">>)
       [] k = "juniper_junos" ->
            <<"u", "@">> \o host \o
            (IF m = "shell" THEN <<"%">> ELSE IF m = "user" THEN <<">">> ELSE <<"#">>)
       [] k = "mikrotik_routeros" -> <<"[", "a", "@">> \o host \o <<"]", " ", ">", " ">>
       [] k = "hw1000" /\ m = "shell" -> shell_name \o <<"#">>
       [] k = "terminal" -> <<"u", "@">> \o host \o <<":", "~", "$", " ">>
       [] OTHER ->
            host \o tag(<<"(","c","o","n","f","i","g",")">>,
                        <<"(","c","o","n","f","i","g","-","i","f",")">>) \o end

\* what the device prints when the session opens; RouterOS draws its prompt twice
Greeting(d) ==
  IF d.kind = "mikrotik_routeros" THEN CRLF \o DevPrompt(d) \o <<CR>> \o DevPrompt(d)
  ELSE CRLF \o DevPrompt(d)

\* the commands send_command is called with, and the body the device prints for each
sh_log == <<"s", "h", " ", "l">>
sh_nbr == <<"s", "h", " ", "n">>
ShowCommands == {sh_log, sh_nbr}
\* a command whose answer is the line of the configuration that names the host
sh_host == <<"s", "h", " ", "h">>
Body(cmd) ==
  CASE cmd = sh_log -> <<"u", "p">> \o CRLF \o <<"o", "k">>
    [] cmd = sh_nbr -> hostname \o <<">", "R", "2">> \o CRLF \o <<"o", "k">>
    [] cmd = show_mode -> <<"s", "i", "n", "g", "l", "e">>
    [] cmd = sh_host -> <<"h", "o", "s", "t", "n", "a", "m", "e", " ">> \o hostname
    [] cmd = show_config_failed -> <<"!", " ", "l", "0">>
    [] cmd = show_commit_changes -> <<"+", " ", "l", "1">>
\* the configuration commands send_config_set is called with
ConfigCommands == <<<<"i", "n", "t", " ", "l", "0">>, <<"n", "o", " ", "s", "h">>>>
BadSecrets == <<"%", " ", "B", "a", "d", " ", "s", "e", "c", "r", "e", "t", "s">>
InvalidInput == <<"%", " ", "I", "n", "v", "a", "l", "i", "d">>
PasswordPrompt == <<"P", "a", "s", "s", "w", "o", "r", "d", ":", " ">>

\* the line without its line ending
RECURSIVE RStripEOL(_)
RStripEOL(s) ==
  IF s /= <<>> /\ s[Len(s)] \in {LF, CR} THEN RStripEOL(SubSeq(s, 1, Len(s) - 1)) ELSE s

\* the device's answer to one line: the echo, the body, the prompt
Answer(d, echo, body) ==
  echo \o CRLF \o body \o (IF body = <<>> THEN <<>> ELSE CRLF) \o DevPrompt(d)

\* The device SSHDetect probes is one box: it prints `text` for the command `cmd`
\* it knows and `other` for any other command.  A box of a family prints text one
\* search pattern of that family finds (alone, or after an invalid-command
\* signature); a box no rule knows prints a signature, or nothing, for every command.
Rules == {SSH_MAPPER_DICT[i] : i \in DOMAIN SSH_MAPPER_DICT}
Profiles ==
  UNION {{[cmd |-> r.cmd, text |-> <<p>>, other |-> <<invalid_responses[1]>>] :
            p \in Range(r.search_patterns)} : r \in Rules} \cup
  {[cmd |-> r.cmd, text |-> <<invalid_responses[1], r.search_patterns[1]>>, other |-> <<>>] :
     r \in Rules} \cup
  {[cmd |-> <<>>, text |-> <<>>, other |-> <<s>>] : s \in Range(invalid_responses)} \cup
  {[cmd |-> <<>>, text |-> <<>>, other |-> <<>>]}
NoProfile == [cmd |-> <<>>, text |-> <<>>, other |-> <<>>]

Device(kind, mode, asks, hrp, profile) ==
  [kind |-> kind, name |-> hostname, mode |-> mode, asks |-> asks, hrp |-> hrp,
   profile |-> profile, paging |-> TRUE, asked |-> FALSE, commit |-> "ok", dirty |-> FALSE,
   busy |-> FALSE]

\* what IOS XR prints for a commit it refuses, for a commit after another
\* session's commit, and for `end` with changes that were not committed
CommitFailed ==
  <<"%", " ", "F", "a", "i", "l", "e", "d", " ", "t", "o", " ", "c", "o", "m", "m", "i", "t">>
CommitConflict ==
  commits_occurred \o CRLF \o proceed_anyway \o <<" ", "[", "n", "o", "]", ":", " ">>
\* what JunOS prints for a commit it made and for one it refuses
CommitComplete == <<"c","o","m","m","i","t"," ","c","o","m","p","l","e","t","e">>
JunosCommitFailed ==
  <<"e","r","r","o","r",":"," ","c","o","m","m","i","t"," ","f","a","i","l","e","d">>
UncommittedChanges ==
  uncommitted_found \o <<"?", " ", "[", "c", "a", "n", "c", "e", "l", "]", ":">>
\* what HW1000 asks after the password while another administrator is logged in
PreemptQuestion ==
  priv_confirm_message \o <<"?", " ", "[", "Y", "e", "s", "/", "N", "o", "]", ":", " ">>
\* the modes in which the device waits for an answer and prints no prompt
WaitingModes == {"passwd", "proceed", "uncommitted", "sh_confirm", "sh_passwd", "preempt"}

\* the device's answers to one line, as [text, dev]
device_replies(d, line) ==
  LET cmd == RStripEOL(line)
      to(m) == [d EXCEPT !.mode = m]
      say(d2, body) == {[text |-> Answer(d2, cmd, body), dev |-> d2]}
  IN CASE d.mode = "passwd" ->
            IF cmd = GoodSecret /\ d.busy
            THEN \* HW1000 with another administrator's session open
                 {[text |-> CRLF \o PreemptQuestion, dev |-> to("preempt")]}
            ELSE IF cmd = GoodSecret
            THEN {[text |-> CRLF \o DevPrompt(to("enable")), dev |-> to("enable")]}
            ELSE {[text |-> CRLF \o BadSecrets \o CRLF \o DevPrompt(to("user")),
                   dev |-> to("user")]}
       [] d.mode = "proceed" ->
            \* the answer to `proceed with this commit anyway?`: only yes commits
            say([d EXCEPT !.mode = "config",
                          !.dirty = IF cmd = <<"y", "e", "s">> THEN FALSE ELSE d.dirty], <<>>)
       [] d.mode = "uncommitted" ->
            \* the answer to `Uncommitted changes found`: no discards them and leaves
            IF cmd = answer_no THEN say([d EXCEPT !.mode = "enable", !.dirty = FALSE], <<>>)
            ELSE say(to("config"), <<>>)
       [] d.mode = "preempt" ->
            \* the answer to HW1000's question about the other session: Yes ends it
            IF cmd = answer_yes
            THEN say([d EXCEPT !.mode = "enable", !.busy = FALSE], <<>>)
            ELSE say(to("user"), <<>>)
       [] d.mode = "sh_confirm" ->
            \* the answer to HW1000's question before the shell: Yes asks for the password
            IF cmd = answer_yes
            THEN {[text |-> cmd \o CRLF \o PasswordPrompt, dev |-> to("sh_passwd")]}
            ELSE say(to("enable"), <<>>)
       [] d.mode = "sh_passwd" ->
            IF cmd = GoodSecret
            THEN {[text |-> CRLF \o DevPrompt(to("shell")), dev |-> to("shell")]}
            ELSE {[text |-> CRLF \o BadSecrets \o CRLF \o DevPrompt(to("enable")),
                   dev |-> to("enable")]}
       [] d.mode \notin WaitingModes /\ cmd = <<>> -> {[text |-> CRLF \o DevPrompt(d), dev |-> d]}
       [] d.mode \notin WaitingModes /\ cmd /= <<>> ->
            CASE d.kind = "autodetect" ->
                   IF cmd = disable_paging_command(d.kind)
                   THEN say([d EXCEPT !.paging = FALSE], <<>>)
                   ELSE say(d, IF cmd = d.profile.cmd THEN d.profile.text
                                                      ELSE d.profile.other)
              [] d.kind /= "autodetect" /\ cmd = disable_paging_command(d.kind) ->
                   say([d EXCEPT !.paging = FALSE], <<>>)
              [] d.kind = "cisco_ios_xr" /\ cmd = commit_command /\ d.mode = "config" ->
                   IF d.commit = "ok" THEN say([d EXCEPT !.dirty = FALSE], <<>>)
                   ELSE IF d.commit = "failed" THEN say(d, CommitFailed)
                   ELSE {[text |-> cmd \o CRLF \o CommitConflict, dev |-> to("proceed")]}
              [] d.kind = "cisco_ios_xr" /\ cmd = config_exit(d.kind) /\ d.mode = "config"
                 /\ d.dirty ->
                   {[text |-> cmd \o CRLF \o UncommittedChanges, dev |-> to("uncommitted")]}
              [] d.kind = "cisco_ios_xr" /\ cmd = abort_command /\ d.mode = "config" ->
                   say([d EXCEPT !.mode = "enable", !.dirty = FALSE], <<>>)
              [] d.kind = "cisco_ios_xr" /\ cmd \in Range(ConfigCommands) /\ d.mode = "config" ->
                   say([d EXCEPT !.dirty = TRUE], <<>>)
              [] d.kind = "cisco_ios_xr" /\ cmd \in {show_config_failed, show_commit_changes} ->
                   say(d, Body(cmd))
              [] d.kind = "hw1000" /\ cmd = shell_enter /\ d.mode = "enable" ->
                   {[text |-> cmd \o CRLF \o shell_enter_message, dev |-> to("sh_confirm")]}
              [] d.kind = "hw1000" /\ cmd = shell_exit /\ d.mode = "shell" ->
                   say(to("enable"), <<>>)
              [] d.kind \in EnableFamily /\ cmd = priv_enter(d.kind) /\ d.mode = "user" ->
                   IF d.asks
                   THEN {[text |-> cmd \o CRLF \o PasswordPrompt,
                          dev |-> [d EXCEPT !.mode = "passwd", !.asked = TRUE]]}
                   ELSE say(to("enable"), <<>>)
              [] d.kind \in EnableFamily /\ cmd = priv_exit(d.kind) /\ d.mode = "enable" ->
                   say(to("user"), <<>>)
              [] d.kind \in IOSFamily /\ cmd = config_enter(d.kind) /\ d.mode = "enable" ->
                   say(to("config"), <<>>)
              [] d.kind \in IOSFamily /\ cmd = config_exit(d.kind) /\ d.mode = "config" ->
                   say(to("enable"), <<>>)
              [] d.kind \in IOSFamily /\ cmd \in Range(ConfigCommands) /\ d.mode = "config" ->
                   say(d, <<>>)
              [] d.kind \in ComwareLike /\ cmd = system_view_enter /\ d.mode = "user" ->
                   say(to("config"), <<>>)
              [] d.kind \in ComwareLike /\ cmd = system_view_exit /\ d.mode = "config" ->
                   say(to("user"), <<>>)
              [] d.kind \in ComwareLike /\ cmd \in Range(ConfigCommands) /\ d.mode = "config" ->
                   say(d, <<>>)
              [] d.kind = "juniper_junos" /\ cmd = junos_config_enter /\ d.mode = "user" ->
                   say(to("config"), <<>>)
              [] d.kind = "juniper_junos" /\ cmd \in Range(ConfigCommands) /\ d.mode = "config" ->
                   say([d EXCEPT !.dirty = TRUE], <<>>)
              [] d.kind = "juniper_junos" /\ IsPrefix(commit_command, cmd) /\ d.mode = "config" ->
                   IF d.commit = "ok" THEN say([d EXCEPT !.dirty = FALSE], CommitComplete)
                   ELSE say(d, JunosCommitFailed)
              [] d.kind = "juniper_junos" /\ cmd = junos_config_exit /\ d.mode = "config" ->
                   say([d EXCEPT !.mode = "user", !.dirty = FALSE], <<>>)
              [] d.kind = "juniper_junos" /\ cmd = cli_command(d.kind) /\ d.mode = "shell" ->
                   say(to("user"), <<>>)
              [] d.kind /= "autodetect" /\ cmd \in ShowCommands \cup {show_mode, sh_host} ->
                   say(d, Body(cmd))
              [] OTHER -> say(d, InvalidInput)

\* ------------------------------------------------------------- transport
ConnOpen == transports /= <<>> /\ transports[Len(transports)] = "open"
\* the device has closed the channel: the session's stdout is at end of file
AtEof == transports /= <<>> /\ transports[Len(transports)] = "eof"

\* the device answers the oldest line it has not answered
DevRespond ==
  /\ inbox /= <<>>
  /\ ConnOpen
  /\ \E r \in device_replies(dev, Head(inbox)) :
       /\ stream' = stream \o r.text
       /\ dev' = r.dev
  /\ inbox' = Tail(inbox)
  /\ UNCHANGED <<dialect, secret, preempt_privilege, delimeter_list, op, pc, todo, output, found, base_prompt, base_pattern,
                 err, result, writes, transports, steps, calls, call, log, after_timeout,
                 potential_matches, rule_idx, scores, timeouts>>

\* stdin.write(line) by the call `caller`
WriteAs(caller, line) ==
  /\ writes' = Append(writes, line)
  /\ inbox' = Append(inbox, line)
  /\ after_timeout' = IF timeouts > 0 THEN after_timeout \cup {caller} ELSE after_timeout
Write(line) == WriteAs(op, line)
\* two lines written one after the other, with no read between them
WriteBoth(first, second) ==
  /\ writes' = writes \o <<first, second>>
  /\ inbox' = inbox \o <<first, second>>
  /\ after_timeout' = IF timeouts > 0 THEN after_timeout \cup {op} ELSE after_timeout

\* ------------------------------------------------------------------ reads
ReadPcs == {"est_read", "fp_read", "en_chk1", "en_cmd", "en_sec", "en_chk2", "cli_chk1",
            "cli_cmd", "cli_chk2", "dp_read", "asa_read", "probe_read", "cmd_read",
            "cfg_chk1", "cfg_cmd", "cfg_chk2", "cfg_line", "xc_chk1", "xc_cmd", "xc_chk2",
            "xe_chk1", "xe_cmd", "xe_chk2", "xr_commit", "xr_reason", "xr_unc", "jn_commit",
            "sh_chk1", "sh_msg", "sh_pwd", "sh_in", "sh_fp", "sh_chk2",
            "xs_chk1", "xs_cmd", "xs_chk2", "xs_fp"}

\* _read_until_pattern's test of its buffer: "" stands for base_pattern
read_until_pattern(pat, out, icase) ==
  Search(IF pat = EmptyPat THEN base_pattern ELSE pat, out, icase)

\* an Alcatel read that searches for the patterns as the base class does
at_line_start_never(d, p) == p
\* `"\n" + pattern` and `"\n" + base_prompt_pattern` in AlcatelAOS's read
at_line_start(d, p) == IF d = "alcatel_aos" THEN Cat(<<Lit(<<LF>>), p>>) ELSE p

\* _read_until_prompt_or_pattern's test; Alcatel AOS puts "\n" before both patterns
read_until_prompt_or_pattern(d, pat, out, icase) ==
  LET p == IF pat = EmptyPat THEN base_pattern ELSE pat
      either(a, b) == IF a = b THEN Search(a, out, icase)
                      ELSE Search(a, out, icase) \/ Search(b, out, icase)
  IN either(at_line_start(d, p), at_line_start(d, base_pattern))

\* the reads that go through _read_until_prompt_or_pattern
PromptOrPatternPcs == {"en_cmd", "probe_read", "cmd_read", "asa_read", "xr_commit", "xr_reason"}

\* the test the read in progress makes after each chunk
ReadFinds(out) ==
  CASE pc \in {"est_read", "fp_read", "sh_fp", "xs_fp"} ->
         IF dialect = "mikrotik_routeros"
         THEN read_until_pattern(base_pattern, out, FALSE)
         ELSE read_until_pattern(delimiters_alt(delimiter_list(dialect)), out, FALSE)
    [] pc = "en_cmd" -> read_until_prompt_or_pattern(dialect, Lit(password), out, TRUE)
    [] pc = "en_sec" /\ dialect = "hw1000" ->
         read_until_prompt_or_pattern(dialect, Lit(priv_confirm_message), out, TRUE)
    [] pc \in {"sh_chk1", "sh_in", "sh_chk2", "xs_chk1", "xs_cmd", "xs_chk2"} ->
         read_until_pattern(shell_delimiters, out, FALSE)
    [] pc = "sh_msg" -> read_until_pattern(Lit(shell_enter_message), out, TRUE)
    [] pc = "sh_pwd" -> read_until_pattern(Lit(password \o <<":">>), out, TRUE)
    [] pc \in {"probe_read", "cmd_read", "asa_read", "xr_reason"} ->
         read_until_prompt_or_pattern(dialect, EmptyPat, out, FALSE)
    [] pc = "xr_commit" ->
         read_until_prompt_or_pattern(dialect, Lit(proceed_anyway), out, FALSE)
    [] pc = "xc_cmd" /\ dialect = "cisco_ios_xr" ->
         read_until_prompt_or_pattern(dialect, Lit(uncommitted_found), out, FALSE)
    [] OTHER -> read_until_pattern(base_pattern, out, FALSE)

\* a read loop starts with an empty buffer
StartRead(label) ==
  /\ pc' = label
  /\ output' = <<>>
  /\ found' = FALSE

\* one turn of a read loop: `output += await wait_for(stdout.read(MAX_BUFFER))`,
\* then the search
ReadChunk ==
  /\ pc \in ReadPcs
  /\ ~found
  /\ stream /= <<>>
  /\ \E n \in 1..Len(stream) :
       /\ n <= MAX_BUFFER
       /\ output' = output \o SubSeq(stream, 1, n)
       /\ stream' = SubSeq(stream, n + 1, Len(stream))
  /\ found' = ReadFinds(output')
  /\ UNCHANGED <<dialect, secret, preempt_privilege, delimeter_list, op, pc, todo, base_prompt, base_pattern, err, result,
                 writes, transports, steps, calls, call, log, after_timeout, potential_matches,
                 rule_idx, scores, timeouts, inbox, dev>>

\* one turn of a read loop at end of file: stdout.read returns "" at once, the
\* buffer stays as it is and so does the result of the search
ReadEmpty ==
  /\ pc \in ReadPcs
  /\ ~found
  /\ stream = <<>>
  /\ AtEof
  /\ output' = output \o <<>>
  /\ found' = ReadFinds(output \o <<>>)
  /\ UNCHANGED <<dialect, secret, preempt_privilege, delimeter_list, op, pc, todo, base_prompt, base_pattern, err, result,
                 writes, transports, steps, calls, call, log, after_timeout, potential_matches,
                 rule_idx, scores, timeouts, inbox, stream, dev>>

\* the device closes the channel during a read, at a moment when what it has
\* sent does not complete the pattern of that read
DevHangUp ==
  /\ ConnOpen
  /\ pc \in ReadPcs
  /\ ~found
  /\ ~ReadFinds(output \o stream)
  /\ transports' = [transports EXCEPT ![Len(transports)] = "eof"]
  /\ UNCHANGED <<dialect, secret, preempt_privilege, delimeter_list, op, pc, todo, output, found, base_prompt, base_pattern,
                 err, result, writes, steps, calls, call, log, after_timeout,
                 potential_matches, rule_idx, scores, timeouts, inbox, stream, dev>>

\* the transport read gives nothing within the timeout: the device has answered
\* everything and the pattern is not there, or it leaves a line unanswered
CanTimeOut ==
  /\ pc \in ReadPcs
  /\ ~found
  /\ stream = <<>>
  /\ ~AtEof
  /\ inbox = <<>> \/ timeouts < MaxTimeouts

\* a read that returns on a timeout instead of raising
timeout_swallowed(d, label) == "none"

\* `except asyncio.TimeoutError: raise TimeoutError(self._host)`: the class the
\* name TimeoutError stands for in the module of the read
timeout_error(d, label) ==
  IF d = "alcatel_aos" /\ label \in PromptOrPatternPcs
  THEN "builtins.TimeoutError"
  ELSE "asynchronet.TimeoutError"

\* an exception leaves the call
Raise(kind) ==
  /\ pc' = "idle"
  /\ err' = kind
  /\ result' = None
  /\ output' = <<>>
  /\ found' = FALSE

\* a line the device did not answer in time is never answered
TimedOut ==
  /\ timeouts' = timeouts + 1
  /\ inbox' = <<>>

\* a call returns
Return(value) ==
  /\ pc' = "idle"
  /\ err' = "none"
  /\ result' = value
  /\ output' = <<>>
  /\ found' = FALSE

\* a read timed out outside _autodetect_std: the exception leaves the call
ReadTimeout ==
  /\ CanTimeOut
  /\ pc /= "probe_read"
  /\ Raise(timeout_error(dialect, pc))
  /\ TimedOut
  /\ UNCHANGED <<dialect, secret, preempt_privilege, delimeter_list, op, todo, base_prompt, base_pattern, writes, transports,
                 steps, calls, call, log, after_timeout, potential_matches, rule_idx, scores,
                 stream, dev>>

\* ---------------------------------------------------------------- connect
\* asyncssh.connect within the timeout, or its DisconnectError, or too late
ConnectOutcomes == {"ok", "asynchronet.DisconnectError", "asynchronet.TimeoutError"}

\* what the steps of connect leave alone
stepFrame == <<dialect, secret, preempt_privilege, delimeter_list, op, todo, transports, calls, call, log, potential_matches, scores,
               timeouts, stream, dev>>

\* _establish_connection up to its read of the banner
establish_connection(caller, outcome) ==
  /\ op' = caller
  /\ steps' = <<"establish">>
  /\ IF outcome = "ok"
     THEN /\ transports' = Append(transports, "open")
          /\ stream' = Greeting(dev)
          /\ inbox' = <<>>
          /\ StartRead("est_read")
          /\ UNCHANGED <<err, result>>
     ELSE /\ Raise(outcome)
          /\ UNCHANGED <<transports, stream, inbox>>
  /\ UNCHANGED <<dialect, secret, preempt_privilege, delimeter_list, todo, base_prompt, base_pattern, writes, calls, call, log,
                 after_timeout, potential_matches, rule_idx, scores, timeouts, dev>>

\* a line is written and its answer awaited at `label`
Ask(line, label) ==
  /\ Write(line)
  /\ StartRead(label)
  /\ UNCHANGED <<steps, err, result, rule_idx>>

\* the step of connect raises
Fail(kind) ==
  /\ Raise(kind)
  /\ UNCHANGED <<steps, writes, inbox, after_timeout, rule_idx>>

\* a step of connect begins, up to its first read
Begin(step) ==
  /\ steps' = Append(steps, step)
  /\ CASE step = "set_base_prompt" ->
            \* _find_prompt
            /\ Write(IF dialect = "mikrotik_routeros" THEN <<CR>>
                     ELSE normalize_cmd(dialect, <<LF>>))
            /\ StartRead("fp_read")
       [] step = "enable_mode" ->
            \* check_enable_mode
            Write(normalize_cmd(dialect, <<LF>>)) /\ StartRead("en_chk1")
       [] step = "cli_mode" ->
            \* check_cli_mode
            Write(normalize_cmd(dialect, <<LF>>)) /\ StartRead("cli_chk1")
       [] step = "disable_paging" ->
            /\ Write(normalize_cmd(dialect, disable_paging_command(dialect)))
            /\ StartRead("dp_read")
       [] step = "check_multiple_mode" ->
            Write(normalize_cmd(dialect, show_mode)) /\ StartRead("asa_read")
  /\ UNCHANGED <<err, result, rule_idx>>

\* connect returns; autodetect goes on to its loop
Connected ==
  /\ UNCHANGED <<writes, inbox, after_timeout>>
  /\ IF op = "autodetect"
     THEN /\ pc' = "rule"
          /\ rule_idx' = 1
          /\ output' = <<>>
          /\ found' = FALSE
          /\ UNCHANGED <<err, result>>
     ELSE /\ Return(None)
          /\ UNCHANGED rule_idx

\* the step `step` of connect is over: the next one begins, or connect returns;
\* called on its own from the body, the step returns to the body
AfterStep(step) ==
  LET k == CHOOSE i \in DOMAIN connect_steps(dialect) : connect_steps(dialect)[i] = step
  IN IF op /= step /\ k < Len(connect_steps(dialect))
     THEN Begin(connect_steps(dialect)[k + 1])
     ELSE Connected /\ UNCHANGED steps

\* the banner is drained and _set_base_prompt begins.  Terminal's only formats
\* the pattern; Mikrotik's sets the pattern before it looks for the prompt
EstablishDone ==
  /\ pc = "est_read"
  /\ found
  /\ IF dialect = "terminal"
     THEN /\ base_pattern' = pattern(dialect, <<>>)
          /\ steps' = Append(steps, "set_base_prompt")
          /\ Connected
     ELSE /\ base_pattern' = IF dialect = "mikrotik_routeros"
                             THEN pattern(dialect, <<>>) ELSE base_pattern
          /\ AfterStep("establish")
  /\ UNCHANGED <<stepFrame, base_prompt>>

\* str.strip()ped output of _find_prompt's read
found_prompt(out) == Strip(out)

\* _find_prompt returns (or finds nothing) and _set_base_prompt sets the two
\* attributes
FindPromptDone ==
  /\ pc = "fp_read"
  /\ found
  /\ LET prompt == found_prompt(output)
     IN IF prompt = <<>>
        THEN Fail("ValueError") /\ UNCHANGED <<base_prompt, base_pattern>>
        ELSE /\ base_prompt' = base_prompt_of(dialect, prompt)
             /\ base_pattern' = IF dialect = "mikrotik_routeros" THEN base_pattern
                                ELSE pattern(dialect, base_prompt_of(dialect, prompt))
             /\ AfterStep("set_base_prompt")
  /\ UNCHANGED stepFrame

\* what the steps of enable_mode leave alone
enableFrame == <<dialect, secret, preempt_privilege, delimeter_list, op, todo, transports, calls,
                 log, potential_matches, scores, timeouts, stream, dev>>
\* `output += ...` in enable_mode; connect drops what enable_mode returns
Gathers(out) == call' = IF op = "enable_mode" THEN [call EXCEPT !.out = out] ELSE call
\* enable_mode returns `out`: to the body, or to connect, which goes on
EnableReturns(out) ==
  IF op = "enable_mode"
  THEN Return(out) /\ UNCHANGED <<writes, inbox, after_timeout, rule_idx, steps>>
  ELSE AfterStep("enable_mode")

\* enable_mode after its first check_enable_mode
EnableChecked1 ==
  /\ pc = "en_chk1"
  /\ found
  /\ IF Contains(output, priv_check(dialect))
     THEN EnableReturns(<<>>)
     ELSE Ask(normalize_cmd(dialect, priv_enter(dialect)), "en_cmd")
  /\ UNCHANGED <<stepFrame, promptVars>>

\* an enable_mode that sends the secret whatever the device answered
asks_password_always(out) == TRUE

\* `if re.search(pattern, output, re_flags)` after the enable command
asks_password(out) == Search(Lit(password), out, TRUE)

\* enable_mode after the answer to the enable command
EnableAnswered ==
  /\ pc = "en_cmd"
  /\ found
  /\ IF asks_password(output)
     THEN Ask(normalize_cmd(dialect, secret), "en_sec")
     ELSE Ask(normalize_cmd(dialect, <<LF>>), "en_chk2")
  /\ Gathers(output)
  /\ UNCHANGED <<enableFrame, promptVars>>

\* an HW1000 session that ends the other administrator's session unasked
preempts_always(pp) == TRUE
\* `if self._preempt_privilege:`
preempts(pp) == pp

\* enable_mode after the answer to the secret
SecretAnswered ==
  /\ pc = "en_sec"
  /\ found
  /\ IF dialect = "hw1000" /\ Search(Lit(priv_confirm_message), output, TRUE)
     THEN IF preempts(preempt_privilege)
          THEN \* `Yes`, and check_enable_mode's empty line with no read between
               /\ WriteBoth(normalize_cmd(dialect, answer_yes), normalize_cmd(dialect, <<LF>>))
               /\ StartRead("en_chk2")
               /\ UNCHANGED <<steps, err, result, rule_idx>>
          ELSE Fail("ValueError")
     ELSE Ask(normalize_cmd(dialect, <<LF>>), "en_chk2")
  /\ Gathers(call.out \o output)
  /\ UNCHANGED <<enableFrame, promptVars>>

\* enable_mode after its second check_enable_mode
EnableChecked2 ==
  /\ pc = "en_chk2"
  /\ found
  /\ IF Contains(output, priv_check(dialect))
     THEN EnableReturns(call.out)
     ELSE Fail("ValueError")
  /\ UNCHANGED <<stepFrame, promptVars>>

\* Juniper's cli_mode after its first check_cli_mode
CliChecked1 ==
  /\ pc = "cli_chk1"
  /\ found
  /\ IF Contains(output, cli_check(dialect))
     THEN AfterStep("cli_mode")
     ELSE Ask(normalize_cmd(dialect, cli_command(dialect)), "cli_cmd")
  /\ UNCHANGED <<stepFrame, promptVars>>

CliEntered ==
  /\ pc = "cli_cmd"
  /\ found
  /\ Ask(normalize_cmd(dialect, <<LF>>), "cli_chk2")
  /\ UNCHANGED <<stepFrame, promptVars>>

CliChecked2 ==
  /\ pc = "cli_chk2"
  /\ found
  /\ IF Contains(output, cli_check(dialect))
     THEN AfterStep("cli_mode")
     ELSE Fail("ValueError")
  /\ UNCHANGED <<stepFrame, promptVars>>

\* _disable_paging read its prompt
DisablePagingDone ==
  /\ pc = "dp_read"
  /\ found
  /\ AfterStep("disable_paging")
  /\ UNCHANGED <<stepFrame, promptVars>>

\* ASA's _check_multiple_mode read the answer to `show mode`
MultipleModeChecked ==
  /\ pc = "asa_read"
  /\ found
  /\ AfterStep("check_multiple_mode")
  /\ UNCHANGED <<stepFrame, promptVars>>

\* ------------------------------------------------------------- autodetect
\* guesser.autodetect() on a new probe: `await self.connect()`
Autodetect ==
  /\ pc = "idle"
  /\ op = "none"
  /\ dialect = "autodetect"
  /\ \E outcome \in ConnectOutcomes : establish_connection("autodetect", outcome)

\* _send_command after its read: linefeeds, prompt, command echo
send_command_output(command_string, out, bp, strip_command_, strip_prompt_) ==
  LET o1 == normalize_linefeeds_of(dialect, out)
      o2 == IF strip_prompt_ THEN strip_prompt(o1, bp) ELSE o1
  IN IF strip_command_ THEN strip_command(command_string, o2) ELSE o2

\* a scoring that does not look for the invalid-command signatures
score_search_only(rule, response) ==
  IF \E j \in DOMAIN rule.search_patterns : FindsAtom(rule.search_patterns[j], response)
  THEN rule.priority
  ELSE 0

\* _autodetect_std on the response: an invalid-command signature gives 0, else the
\* first search pattern found gives the priority
autodetect_std_score(rule, response) ==
  IF \E i \in DOMAIN invalid_responses : FindsAtom(invalid_responses[i], response)
  THEN 0
  ELSE IF \E j \in DOMAIN rule.search_patterns : FindsAtom(rule.search_patterns[j], response)
  THEN rule.priority
  ELSE 0

\* dict[key] = value keeps the place of a key that is there
dict_put(d, key, value) ==
  IF \E i \in DOMAIN d : d[i][1] = key
  THEN [i \in DOMAIN d |-> IF d[i][1] = key THEN <<key, value>> ELSE d[i]]
  ELSE Append(d, <<key, value>>)

\* sorted(potential_matches.items(), key=accuracy, reverse=True)[0][0], and the
\* WLC remap
best_match(matches) ==
  LET best == SortedByKey(matches, [i \in DOMAIN matches |-> 0 - matches[i][2]])
  IN IF best[1][1] = "cisco_wlc_85" THEN "cisco_wlc" ELSE best[1][1]

\* a loop that goes on to the next rule after a match
stops_loop_never(accuracy) == FALSE

\* `if accuracy:` of autodetect's loop
stops_loop(accuracy) == accuracy /= 0

\* a probe that lets the exceptions of its read through
absorbed_none(kind) == FALSE

\* `except Exception: return 0` of _autodetect_std: the exceptions it absorbs
absorbed(kind) == TRUE

\* the loop of autodetect after one rule gave `accuracy`
AfterRule(accuracy) ==
  /\ scores' = Append(scores, accuracy)
  /\ output' = <<>>
  /\ found' = FALSE
  /\ IF stops_loop(accuracy)
     THEN /\ potential_matches' =
               dict_put(potential_matches, SSH_MAPPER_BASE[rule_idx].family, accuracy)
          /\ pc' = "disconnect"
          /\ UNCHANGED <<rule_idx, err, result>>
     ELSE /\ UNCHANGED potential_matches
          /\ IF rule_idx < Len(SSH_MAPPER_BASE)
             THEN /\ rule_idx' = rule_idx + 1
                  /\ pc' = "rule"
                  /\ UNCHANGED <<err, result>>
             ELSE \* the loop ends and the function falls off its end
                  /\ pc' = "idle"
                  /\ err' = "none"
                  /\ result' = None
                  /\ UNCHANGED rule_idx

\* what the loop of autodetect leaves alone
ruleFrame == <<dialect, secret, preempt_privilege, delimeter_list, op, todo, base_prompt, base_pattern, transports, steps,
               calls, call, log, stream, dev>>

\* _autodetect_std for the rule at rule_idx: the command is written by _send_command
AutodetectStd ==
  /\ pc = "rule"
  /\ LET rule == SSH_MAPPER_BASE[rule_idx]
     IN IF rule.cmd = <<>> \/ rule.search_patterns = <<>>
        THEN /\ AfterRule(0)
             /\ UNCHANGED <<writes, inbox, after_timeout>>
        ELSE /\ Write(normalize_cmd(dialect, rule.cmd))
             /\ StartRead("probe_read")
             /\ UNCHANGED <<err, result, potential_matches, rule_idx, scores>>
  /\ UNCHANGED <<ruleFrame, timeouts>>

\* _send_command's read ended on the prompt: the response is scored
ProbeDone ==
  /\ pc = "probe_read"
  /\ found
  /\ LET rule == SSH_MAPPER_BASE[rule_idx]
         response == send_command_output(normalize_cmd(dialect, rule.cmd), output,
                                         base_prompt, TRUE, TRUE)
     IN AfterRule(autodetect_std_score(rule, response))
  /\ UNCHANGED <<ruleFrame, timeouts, writes, inbox, after_timeout>>

\* the probe's read timed out inside _autodetect_std
ProbeFailed ==
  /\ CanTimeOut
  /\ pc = "probe_read"
  /\ TimedOut
  /\ IF absorbed(timeout_error(dialect, pc))
     THEN AfterRule(0)
     ELSE Raise(timeout_error(dialect, pc)) /\ UNCHANGED detectVars
  /\ UNCHANGED <<ruleFrame, writes, after_timeout>>

\* close() of the transport
close_transport(ts) == [ts EXCEPT ![Len(ts)] = "closed"]

\* disconnect() after a match (the probe's _cleanup does nothing), and autodetect
\* returns best_match[0][0]
DisconnectAfterMatch ==
  /\ pc = "disconnect"
  /\ op = "autodetect"
  /\ transports' = close_transport(transports)
  /\ Return(best_match(potential_matches))
  /\ UNCHANGED <<dialect, secret, preempt_privilege, delimeter_list, op, todo, base_prompt, base_pattern, writes, steps, calls, call,
                 log, after_timeout, potential_matches, rule_idx, scores, timeouts, inbox,
                 stream, dev>>

\* a session object after its constructor
NewSession(d, s, pp, dl) ==
  /\ dialect = d
  /\ secret = s
  /\ preempt_privilege = pp
  /\ delimeter_list = dl
  /\ op = "none"
  /\ pc = "idle"
  /\ todo = <<>>
  /\ output = <<>>
  /\ found = FALSE
  /\ base_prompt = <<>>
  /\ base_pattern = initial_base_pattern(d)
  /\ err = "none"
  /\ result = None
  /\ writes = <<>>
  /\ transports = <<>>
  /\ steps = <<>>
  /\ calls = 0
  /\ call = NoCall
  /\ log = <<>>
  /\ after_timeout = {}
  /\ potential_matches = <<>>
  /\ rule_idx = 0
  /\ scores = <<>>
  /\ timeouts = 0
  /\ inbox = <<>>
  /\ stream = <<>>

\* `delimeter_list=None`, the default of Terminal's constructor
ConstructedWith(d, s, pp) == NewSession(d, s, pp, <<>>)
\* `preempt_privilege=False`, the default of HW1000's constructor
Constructed(d, s) == ConstructedWith(d, s, FALSE)

InitDetect ==
  /\ Constructed("autodetect", <<>>)
  /\ \E pr \in Profiles : dev = Device("autodetect", "user", FALSE, FALSE, pr)

NextDetect ==
  \/ Autodetect
  \/ DevRespond
  \/ ReadChunk
  \/ ReadTimeout
  \/ EstablishDone
  \/ FindPromptDone
  \/ DisablePagingDone
  \/ AutodetectStd
  \/ ProbeDone
  \/ ProbeFailed
  \/ DisconnectAfterMatch

SpecDetect == InitDetect /\ [][NextDetect]_vars

\* ---------------------------------------------------------- scoped session
\* `async with Device(...) as dev:` -> __aenter__ -> connect()
Enter ==
  /\ pc = "idle"
  /\ op = "none"
  /\ dialect /= "autodetect"
  /\ \E outcome \in ConnectOutcomes : establish_connection("enter", outcome)

\* the dialects send_config_set is called on
ConfigDialects == {"cisco_ios"}

BodyOps == {"send_command", "send_config_set", "enable_mode", "exit_enable_mode",
            "enter_shell_mode", "exit_shell_mode"}
\* the body of the scope runs: __aenter__ returned and no call of the body raised
InBody == pc = "idle" /\ op \in BodyOps \cup {"enter"} /\ err = "none"
\* the scope is left: the body is over, or one of its calls raised
Leaving == pc = "idle" /\ (InBody \/ op \in BodyOps)

\* what the calls of the body and the exit leave alone
callFrame == <<dialect, secret, preempt_privilege, delimeter_list, base_prompt, base_pattern, steps, potential_matches,
               rule_idx, scores, timeouts, stream, dev>>

\* the calls the body makes: several on the dialects whose configuration calls
\* are followed, one on the others
CallBound(d) == IF d \in ConfigDialects \cup {"hw1000"} THEN MaxCalls ELSE 1

\* send_command(command_string, strip_command=sc, strip_prompt=sp) up to its read
send_command(c, sc, sp) ==
  /\ InBody
  /\ calls < CallBound(dialect)
  /\ WriteAs("send_command", normalize_cmd(dialect, c))
  /\ todo' = <<normalize_cmd(dialect, c)>>
  /\ call' = [NoCall EXCEPT !.strip_command = sc, !.strip_prompt = sp]
  /\ op' = "send_command"
  /\ calls' = calls + 1
  /\ StartRead("cmd_read")
  /\ UNCHANGED <<callFrame, transports, log, err, result>>

\* send_command with the defaults of its flags
SendCommand == \E c \in ShowCommands : send_command(c, TRUE, TRUE)

\* send_command returns what is left of its read
SendCommandDone ==
  /\ pc = "cmd_read"
  /\ found
  /\ LET out == send_command_output(Head(todo), output, base_prompt,
                                    call.strip_command, call.strip_prompt)
     IN /\ Return(out)
        /\ log' = Append(log, [cmd |-> RStripEOL(Head(todo)), out |-> out])
  /\ todo' = <<>>
  /\ UNCHANGED <<callFrame, transports, op, calls, call, writes, inbox, after_timeout>>

\* IOS-like send_config_set(config_commands, exit_config_mode=xc), with
\* with_commit=wc on IOS XR: config_mode begins with check_config_mode; `it`
\* tells whether config_commands is iterable
send_config_set(it, xc, wc) ==
  /\ InBody
  /\ calls < CallBound(dialect)
  /\ dialect \in ConfigDialects \cup {"cisco_ios_xr"}
  /\ op' = "send_config_set"
  /\ calls' = calls + 1
  /\ todo' = ConfigCommands
  /\ call' = [NoCall EXCEPT !.iterable = it, !.exit_config_mode = xc, !.with_commit = wc]
  /\ WriteAs("send_config_set", normalize_cmd(dialect, <<LF>>))
  /\ StartRead("cfg_chk1")
  /\ UNCHANGED <<callFrame, transports, log, err, result>>

\* send_config_set with a list of commands and the default of its flag, as the
\* first call of the body
SendConfigSet == calls = 0 /\ send_config_set(TRUE, TRUE, TRUE)

\* a line is written by a call of the body or by the exit, and its answer awaited
Then(line, label) ==
  /\ Write(line)
  /\ StartRead(label)
  /\ UNCHANGED <<err, result, transports>>

\* the call raises
Throw(kind) ==
  /\ Raise(kind)
  /\ UNCHANGED <<writes, inbox, after_timeout, transports>>

\* send_config_set returns its output, normalised once more
ConfigSetReturns(out) ==
  /\ Return(normalize_linefeeds_of(dialect, out))
  /\ UNCHANGED <<writes, inbox, after_timeout, transports>>

\* the commands are sent, and committed where they are: exit_config_mode begins
\* with check_config_mode, or the call returns
AfterConfigLines(all) ==
  IF call.exit_config_mode
  THEN /\ Then(normalize_cmd(dialect, <<LF>>), "xc_chk1")
       /\ call' = [call EXCEPT !.out = all, !.part = <<>>]
  ELSE /\ ConfigSetReturns(all)
       /\ call' = [call EXCEPT !.out = <<>>, !.part = <<>>]

\* a commit line that leaves the comment out
junos_commit_plain(commit_comment) == commit_command

\* JunOS's commit line: `if commit_comment:` takes the line with the comment
junos_commit(commit_comment) ==
  IF commit_comment /= <<>> THEN commit_comment_command(commit_comment) ELSE commit_command

\* the base send_config_set is over and returned `part`; IOS XR and JunOS write
\* their commit
BaseConfigSetDone(out, part) ==
  LET all == out \o normalize_linefeeds_of(dialect, part)
  IN IF dialect = "cisco_ios_xr" /\ call.with_commit
     THEN /\ Then(normalize_cmd(dialect, commit_command), "xr_commit")
          /\ call' = [call EXCEPT !.out = all, !.part = <<>>]
     ELSE IF dialect = "juniper_junos" /\ call.with_commit
     THEN /\ Then(normalize_cmd(dialect, junos_commit(call.commit_comment)), "jn_commit")
          /\ call' = [call EXCEPT !.out = all, !.part = <<>>]
     ELSE AfterConfigLines(all)

\* config_mode returned `entered` and the base send_config_set begins: it raises
\* on what cannot be iterated, and writes the first command
BaseConfigSet(entered) ==
  IF ~call.iterable
  THEN Throw("ValueError") /\ UNCHANGED <<todo, call>>
  ELSE IF todo = <<>>
       THEN BaseConfigSetDone(entered, <<>>) /\ UNCHANGED todo
       ELSE /\ Then(normalize_cmd(dialect, Head(todo)), "cfg_line")
            /\ todo' = Tail(todo)
            /\ call' = [call EXCEPT !.out = entered]

\* a mode switch that writes its command whatever the check said
needs_config_always(out, d) == TRUE
\* `if not await self.check_config_mode():` in config_mode
needs_config(out, d) == ~Contains(out, config_check(d))

\* config_mode after its first check_config_mode
ConfigChecked1 ==
  /\ pc = "cfg_chk1"
  /\ found
  /\ IF ~needs_config(output, dialect)
     THEN BaseConfigSet(<<>>)
     ELSE Then(normalize_cmd(dialect, config_enter(dialect)), "cfg_cmd")
          /\ UNCHANGED <<todo, call>>
  /\ UNCHANGED <<callFrame, op, calls, log>>

\* config_mode keeps the answer to its command
ConfigEntered ==
  /\ pc = "cfg_cmd"
  /\ found
  /\ call' = [call EXCEPT !.out = output]
  /\ Then(normalize_cmd(dialect, <<LF>>), "cfg_chk2")
  /\ UNCHANGED <<callFrame, op, calls, log, todo>>

\* config_mode after its second check_config_mode
ConfigChecked2 ==
  /\ pc = "cfg_chk2"
  /\ found
  /\ IF Contains(output, config_check(dialect))
     THEN BaseConfigSet(call.out)
     ELSE Throw("ValueError") /\ UNCHANGED <<todo, call>>
  /\ UNCHANGED <<callFrame, op, calls, log>>

\* the prompt after one configuration command was read: the next command is
\* written, or the base send_config_set returns
ConfigLineDone ==
  /\ pc = "cfg_line"
  /\ found
  /\ IF todo /= <<>>
     THEN /\ Then(normalize_cmd(dialect, Head(todo)), "cfg_line")
          /\ todo' = Tail(todo)
          /\ call' = [call EXCEPT !.part = call.part \o output]
     ELSE BaseConfigSetDone(call.out, call.part \o output) /\ UNCHANGED todo
  /\ UNCHANGED <<callFrame, op, calls, log>>

\* exit_config_mode returns `left`: to send_config_set, which returns, or to
\* _cleanup, after which disconnect closes the transport and __aexit__ returns,
\* so that an exception of the body goes on to the caller
ExitConfigReturns(left) ==
  IF op = "exit"
  THEN /\ transports' = close_transport(transports)
       /\ pc' = "idle"
       /\ result' = None
       /\ output' = <<>>
       /\ found' = FALSE
       /\ UNCHANGED <<err, writes, inbox, after_timeout, call>>
  ELSE /\ ConfigSetReturns(call.out \o left)
       /\ call' = [call EXCEPT !.out = <<>>, !.part = <<>>]

\* exit_config_mode after its first check_config_mode
ExitConfigChecked1 ==
  /\ pc = "xc_chk1"
  /\ found
  /\ IF Contains(output, config_check(dialect))
     THEN Then(normalize_cmd(dialect, config_exit(dialect)), "xc_cmd") /\ UNCHANGED call
     ELSE ExitConfigReturns(<<>>)
  /\ UNCHANGED <<callFrame, op, calls, log, todo>>

\* an exit_config_mode that never sees the device's question
uncommitted_shown_never(out) == FALSE
\* `if "Uncommitted changes found" in output:`
uncommitted_shown(out) == Contains(out, uncommitted_found)

\* exit_config_mode keeps the answer to its command; IOS XR answers no when it
\* is told of uncommitted changes, and reads up to the prompt
ExitConfigLeft ==
  /\ pc = "xc_cmd"
  /\ found
  /\ call' = [call EXCEPT !.part = output]
  /\ IF dialect = "cisco_ios_xr" /\ uncommitted_shown(output)
     THEN Then(normalize_cmd(dialect, answer_no), "xr_unc")
     ELSE Then(normalize_cmd(dialect, <<LF>>), "xc_chk2")
  /\ UNCHANGED <<callFrame, op, calls, log, todo>>

\* IOS XR's exit_config_mode read the prompt after its no
UncommittedAnswered ==
  /\ pc = "xr_unc"
  /\ found
  /\ call' = [call EXCEPT !.part = call.part \o output]
  /\ Then(normalize_cmd(dialect, <<LF>>), "xc_chk2")
  /\ UNCHANGED <<callFrame, op, calls, log, todo>>

\* IOS XR's send_config_set read the answer to its commit: it asks why the commit
\* failed, or answers no and asks what the other commits changed, or goes on
CommitAnswered ==
  /\ pc = "xr_commit"
  /\ found
  /\ LET all == call.out \o output
         ask(cmd) == normalize_cmd(dialect, normalize_cmd(dialect, cmd))
     IN IF Contains(all, failed_to_commit)
        THEN /\ todo' = <<ask(show_config_failed)>>
             /\ Then(ask(show_config_failed), "xr_reason")
             /\ call' = [call EXCEPT !.out = all]
        ELSE IF Contains(all, commits_occurred)
        THEN /\ todo' = <<ask(show_commit_changes)>>
             /\ WriteBoth(normalize_cmd(dialect, answer_no), ask(show_commit_changes))
             /\ StartRead("xr_reason")
             /\ call' = [call EXCEPT !.out = all]
             /\ UNCHANGED <<err, result, transports>>
        ELSE AfterConfigLines(all) /\ UNCHANGED todo
  /\ UNCHANGED <<callFrame, op, calls, log>>

\* the send_command that asked for the reason returns it, and send_config_set
\* raises CommitError(host, reason)
CommitErrorRaised ==
  /\ pc = "xr_reason"
  /\ found
  /\ LET reason == send_command_output(Head(todo), output, base_prompt, TRUE, TRUE)
     IN log' = Append(log, [cmd |-> RStripEOL(Head(todo)), out |-> reason])
  /\ Throw("CommitError")
  /\ todo' = <<>>
  /\ call' = [call EXCEPT !.out = <<>>, !.part = <<>>]
  /\ UNCHANGED <<callFrame, op, calls>>

\* exit_config_mode after its second check_config_mode
ExitConfigChecked2 ==
  /\ pc = "xc_chk2"
  /\ found
  /\ IF Contains(output, config_check(dialect))
     THEN Throw("ValueError") /\ UNCHANGED call
     ELSE ExitConfigReturns(call.part)
  /\ UNCHANGED <<callFrame, op, calls, log, todo>>

\* enable_mode() called from the body, up to the read of check_enable_mode
EnableMode ==
  /\ InBody
  /\ calls < CallBound(dialect)
  /\ dialect \in ConfigDialects
  /\ op' = "enable_mode"
  /\ calls' = calls + 1
  /\ call' = NoCall
  /\ WriteAs("enable_mode", normalize_cmd(dialect, <<LF>>))
  /\ StartRead("en_chk1")
  /\ UNCHANGED <<callFrame, transports, log, todo, err, result>>

\* exit_enable_mode() called from the body, up to the read of check_enable_mode
ExitEnableModeOn(ds) ==
  /\ InBody
  /\ calls < CallBound(dialect)
  /\ dialect \in ds
  /\ op' = "exit_enable_mode"
  /\ calls' = calls + 1
  /\ call' = NoCall
  /\ WriteAs("exit_enable_mode", normalize_cmd(dialect, <<LF>>))
  /\ StartRead("xe_chk1")
  /\ UNCHANGED <<callFrame, transports, log, todo, err, result>>

ExitEnableMode == ExitEnableModeOn(ConfigDialects)

\* exit_enable_mode returns the answer to its command, or "" when there was
\* nothing to leave
ExitEnableReturns(left) ==
  IF op = "exit"
  THEN \* HW1000's _cleanup is over: disconnect closes the transport
       /\ transports' = close_transport(transports)
       /\ pc' = "idle"
       /\ result' = None
       /\ output' = <<>>
       /\ found' = FALSE
       /\ UNCHANGED <<err, writes, inbox, after_timeout>>
  ELSE /\ Return(left)
       /\ UNCHANGED <<writes, inbox, after_timeout, transports>>

\* exit_enable_mode after its first check_enable_mode
ExitEnableChecked1 ==
  /\ pc = "xe_chk1"
  /\ found
  /\ IF Contains(output, priv_check(dialect))
     THEN Then(normalize_cmd(dialect, priv_exit(dialect)), "xe_cmd")
     ELSE ExitEnableReturns(<<>>)
  /\ UNCHANGED <<callFrame, op, calls, call, log, todo>>

\* exit_enable_mode keeps the answer to its command
ExitEnableLeft ==
  /\ pc = "xe_cmd"
  /\ found
  /\ call' = [call EXCEPT !.out = output]
  /\ Then(normalize_cmd(dialect, <<LF>>), "xe_chk2")
  /\ UNCHANGED <<callFrame, op, calls, log, todo>>

\* exit_enable_mode after its second check_enable_mode
ExitEnableChecked2 ==
  /\ pc = "xe_chk2"
  /\ found
  /\ IF Contains(output, priv_check(dialect))
     THEN Throw("ValueError")
     ELSE ExitEnableReturns(call.out)
  /\ UNCHANGED <<callFrame, op, calls, call, log, todo>>

\* a cleanup that leaves the configuration mode with `end`
cleanup_with_end == config_exit("cisco_ios_xr")
\* `abort_command = type(self)._abort_command` in CiscoIOSXR's _cleanup
cleanup_command == abort_command

\* the scope is left: __aexit__ -> disconnect() -> _cleanup(), which is
\* exit_config_mode on IOS-like dialects, the one line `abort` on IOS XR and
\* nothing on the others
Exit ==
  /\ Leaving
  /\ op' = "exit"
  /\ IF dialect \in IOSLike \cup {"hw1000"}
     THEN /\ WriteAs("exit", normalize_cmd(dialect, <<LF>>))
          /\ StartRead(IF dialect = "hw1000" THEN "xs_chk1" ELSE "xc_chk1")
          /\ UNCHANGED <<err, result, transports>>
     ELSE /\ transports' = close_transport(transports)
          /\ pc' = "idle"
          /\ result' = None
          /\ output' = <<>>
          /\ found' = FALSE
          /\ IF dialect = "cisco_ios_xr"
             THEN WriteAs("exit", normalize_cmd(dialect, cleanup_command))
             ELSE UNCHANGED <<writes, inbox, after_timeout>>
          /\ UNCHANGED err
  /\ UNCHANGED <<callFrame, calls, call, log, todo>>

\* the devices a session of dialect d is opened on: IOS in user mode with or
\* without an enable password, or already in privileged mode; the other IOS-like
\* ones in user mode with a password
Devices(d) ==
  CASE d = "cisco_ios" ->
         {Device(d, "user", a, FALSE, NoProfile) : a \in BOOLEAN} \cup
         {Device(d, "enable", FALSE, FALSE, NoProfile)}
    [] d \in IOSLike \ {"cisco_ios"} -> {Device(d, "user", TRUE, FALSE, NoProfile)}
    [] d = "huawei" -> {Device(d, "user", FALSE, h, NoProfile) : h \in BOOLEAN}
    [] d = "juniper_junos" -> {Device(d, m, FALSE, FALSE, NoProfile) : m \in {"shell", "user"}}
    [] d = "hw1000" -> {Device(d, "user", TRUE, FALSE, NoProfile)}
    [] OTHER -> {Device(d, "user", FALSE, FALSE, NoProfile)}

\* the secrets a session is constructed with: a wrong one where it is asked for
Secrets(d, device) ==
  CASE d = "cisco_ios" /\ device.asks -> {GoodSecret, BadSecret}
    [] d \in IOSLike \cup {"hw1000"} /\ ~(d = "cisco_ios" /\ device.asks) -> {GoodSecret}
    [] OTHER -> {<<>>}

InitSession ==
  \E d \in Dialects :
    /\ dev \in Devices(d)
    /\ \E s \in Secrets(d, dev) : Constructed(d, s)

NextSession ==
  \/ Enter
  \/ DevRespond
  \/ ReadChunk
  \/ ReadTimeout
  \/ EstablishDone
  \/ FindPromptDone
  \/ EnableChecked1
  \/ EnableAnswered
  \/ SecretAnswered
  \/ EnableChecked2
  \/ CliChecked1
  \/ CliEntered
  \/ CliChecked2
  \/ DisablePagingDone
  \/ MultipleModeChecked
  \/ SendCommand
  \/ SendCommandDone
  \/ SendConfigSet
  \/ ConfigChecked1
  \/ ConfigEntered
  \/ ConfigChecked2
  \/ ConfigLineDone
  \/ ExitConfigChecked1
  \/ ExitConfigLeft
  \/ ExitConfigChecked2
  \/ Exit

SpecSession == InitSession /\ [][NextSession]_vars

\* the probe and the vendor sessions side by side
InitAll == InitDetect \/ InitSession
NextAll ==
  \/ Autodetect
  \/ AutodetectStd
  \/ ProbeDone
  \/ ProbeFailed
  \/ DisconnectAfterMatch
  \/ NextSession
SpecAll == InitAll /\ [][NextAll]_vars

ProbeCommands == {normalize_cmd("autodetect", r.cmd) : r \in Rules}
\* autodetect() has returned (not raised)
DetectReturned == op = "autodetect" /\ pc = "idle" /\ err = "none" /\ rule_idx >= 1
\* connect() called by scoped entry has returned
EnterReturned == op = "enter" /\ pc = "idle" /\ err = "none"
TimeoutKinds == {"asynchronet.TimeoutError", "builtins.TimeoutError"}

\* C1: in one autodetect() run in which every probe command was answered, no probe
\* command (the cmd of a rule) is written to the device twice.
C1_ProbeCommandWrittenOnce ==
  timeouts = 0 =>
    \A i, j \in DOMAIN writes :
      (i < j /\ writes[i] = writes[j]) => writes[i] \notin ProbeCommands

\* the rule whose score is the last one recorded
LastRule == SSH_MAPPER_BASE[Len(scores)]
\* the rules are scored in SSH_MAPPER_BASE order, only the last score recorded can
\* be non-zero, and after a non-zero score the last line written stays the
\* matching rule's command
C2_StopsAtFirstMatch ==
  /\ pc \in {"rule", "probe_read"} => Len(scores) = rule_idx - 1
  /\ pc \in {"disconnect"} => Len(scores) = rule_idx
  /\ \A i \in 1..(Len(scores) - 1) : scores[i] = 0
  /\ (scores /= <<>> /\ scores[Len(scores)] /= 0) =>
       /\ writes[Len(writes)] = normalize_cmd(dialect, LastRule.cmd)
       /\ pc \in {"disconnect", "idle"}

\* C2 (as amended): autodetect() scores the rules in SSH_MAPPER_BASE order and
\* stops at the first non-zero score; it evaluates no later rule, writes nothing
\* after the matching rule's command, and returns that rule's family name, except
\* that a match of cisco_wlc_85 is returned as cisco_wlc.
C2_FirstMatchReported ==
  /\ C2_StopsAtFirstMatch
  /\ (DetectReturned /\ result /= None) =>
       /\ scores[Len(scores)] /= 0
       /\ result = IF LastRule.family = "cisco_wlc_85" THEN "cisco_wlc" ELSE LastRule.family

\* C2 (as stated): ... and it returns the family name of the matching rule.
C2_FirstMatchFamily ==
  /\ C2_StopsAtFirstMatch
  /\ (DetectReturned /\ result /= None) =>
       /\ scores[Len(scores)] /= 0
       /\ result = LastRule.family

\* a device matched after an earlier rule scored zero
C2_Witness == DetectReturned /\ result /= None /\ Len(scores) > 1

\* C3: once connected, autodetect() never raises, and when every rule has scored
\* zero it has returned None.
C3_NoMatchReturnsNone ==
  /\ (op = "autodetect" /\ rule_idx >= 1) => err = "none"
  /\ (op = "autodetect" /\ Len(scores) = Len(SSH_MAPPER_BASE)
        /\ \A i \in DOMAIN scores : scores[i] = 0) =>
       (pc = "idle" /\ err = "none" /\ result = None)
  /\ (DetectReturned /\ result = None) =>
       (Len(scores) = Len(SSH_MAPPER_BASE) /\ \A i \in DOMAIN scores : scores[i] = 0)

\* every probe command was answered with an invalid-command signature
C3_Witness ==
  /\ DetectReturned
  /\ result = None
  /\ timeouts = 0
  /\ dev.profile = [cmd |-> <<>>, text |-> <<>>, other |-> <<invalid_responses[1]>>]

\* C4: whenever autodetect() has returned after a successful connect, with a
\* family name or with None, the probe's transport is closed.
C4_ClosedOnReturn == DetectReturned => ~ConnOpen

\* C5: when the exit of a scoped session is over, whether it returned or raised,
\* the transport is closed.
C5_ExitClosesTransport == (op = "exit" /\ pc = "idle") => ~ConnOpen

\* C6: on an IOS session every send_command that returned gave exactly the body
\* the device printed for its command, with LF line ends.
C6_ReturnsOwnBody ==
  dialect = "cisco_ios" =>
    \A k \in DOMAIN log : log[k].out = normalize_linefeeds(Body(log[k].cmd))

\* C7: a call of connect or send_command that a read timeout ended raised the
\* library's TimeoutError.
C7_TimeoutIsLibraryError ==
  (timeouts > 0 /\ op \in {"enter", "send_command"}) =>
    (pc = "idle" /\ err = "asynchronet.TimeoutError")

\* C8 (as stated): after a read has timed out nothing more is written.
C8_NothingWrittenAfterTimeout == after_timeout = {}

\* C8 (as amended): a read timeout outside _autodetect_std ends the call that
\* issued the read, which writes nothing more; the lines written after a timeout
\* are those of the vendor cleanup at scoped exit and the later probe commands of
\* autodetect, which absorbs the timeouts of its probes.
C8_OnlyCleanupAndProbesWriteAfterTimeout ==
  /\ after_timeout \subseteq {"exit", "autodetect"}
  /\ (timeouts > 0 /\ op \notin {"exit", "autodetect"}) => (pc = "idle" /\ err \in TimeoutKinds)
  /\ (timeouts > 0 /\ op = "autodetect" /\ rule_idx = 0) =>
       (pc = "idle" /\ err \in TimeoutKinds /\ after_timeout = {})
  /\ "autodetect" \in after_timeout => writes[Len(writes)] \in ProbeCommands

\* the cleanup wrote its mode check after a call of the body had timed out
C8_Witness == "exit" \in after_timeout /\ pc = "idle" /\ ~ConnOpen

\* C9 (as amended): after connect() has returned, base_pattern finds a match in
\* the device's current prompt and base_prompt is not empty, except on Terminal,
\* which never sets base_prompt.
C9_PromptKnownAfterConnect ==
  EnterReturned =>
    /\ Search(base_pattern, DevPrompt(dev), FALSE)
    /\ dialect /= "terminal" => base_prompt /= <<>>
    /\ dialect = "terminal" => base_prompt = <<>>

\* C9 (as stated): in every dialect, after connect() has returned base_prompt is
\* not empty and base_pattern finds a match in the device's current prompt.
C9_PromptKnownEveryDialect ==
  EnterReturned => (Search(base_pattern, DevPrompt(dev), FALSE) /\ base_prompt /= <<>>)

C9_Witness == EnterReturned /\ dialect = "mikrotik_routeros" /\ base_prompt = hostname

\* C10: IOS-like connect() begins its steps in the order establish,
\* set_base_prompt, enable_mode, disable_paging; no step's command is written and
\* paging stays on before the step begins; disable_paging begins only with the
\* device in privileged mode; the secret is written only after the device asked
\* for a password; and when connect() has returned the device is in privileged
\* mode with paging disabled, base_prompt is R1 and base_pattern finds the user
\* and the privileged prompt.
C10_ConnectOrder ==
  dialect \in IOSLike =>
    /\ IsPrefix(steps, connect_steps(dialect))
    /\ SubSeq(connect_steps(dialect), 1, 4) =
         <<"establish", "set_base_prompt", "enable_mode", "disable_paging">>
    /\ (op = "enter" /\ "disable_paging" \in Range(steps)) => dev.mode = "enable"
    /\ normalize_cmd(dialect, disable_paging_command(dialect)) \in Range(writes) =>
         "disable_paging" \in Range(steps)
    /\ normalize_cmd(dialect, secret) \in Range(writes) => dev.asked
    /\ normalize_cmd(dialect, priv_enter(dialect)) \in Range(writes) =>
         "enable_mode" \in Range(steps)
    /\ "disable_paging" \notin Range(steps) => dev.paging
    /\ EnterReturned =>
         /\ steps = connect_steps(dialect)
         /\ dev.mode = "enable"
         /\ ~dev.paging
         /\ base_prompt = hostname
         /\ Search(base_pattern, DevPrompt([dev EXCEPT !.mode = "user"]), FALSE)
         /\ Search(base_pattern, DevPrompt([dev EXCEPT !.mode = "enable"]), FALSE)

\* connect() returned on a device that started at R1> and asked for the password
C10_Witness == EnterReturned /\ dialect = "cisco_ios" /\ dev.asked /\ secret = GoodSecret

\* ------------------------------------------------------------ text functions
\* The functions send_command applies to what it read, on inputs drawn from
\* bounded sets: texts of carriage returns, line feeds and a letter for the
\* normalizers, and answers of a device to `ls` for the two strippers.
MaxText == 5
MaxBody == 3
TextAlphabet == {CR, LF, "a"}
Texts == UNION {[1..n -> TextAlphabet] : n \in 0..MaxText}
\* the classes whose _normalize_linefeeds differ
TextDialects == {"cisco_ios", "cisco_nxos", "fujitsu_switch"}

RECURSIVE Flatten(_)
Flatten(parts) == IF parts = <<>> THEN <<>> ELSE Head(parts) \o Flatten(Tail(parts))

ls == <<"l", "s">>
\* what a body is made of: letters of the command and of the hostname, a line
\* end, a backspace
BodyAtoms == {<<"l">>, <<"s">>, <<"R">>, <<"1">>, CRLF, <<BS>>}
Bodies == {Flatten(p) : p \in UNION {[1..n -> BodyAtoms] : n \in 0..MaxBody}}
\* the classes the answers are read by: Terminal keeps an empty base_prompt
StripDialects == {"cisco_ios", "terminal"}
TextDevice(d) == Device(d, IF d = "terminal" THEN "user" ELSE "enable", FALSE, FALSE, NoProfile)
TextPrompt(d) == IF d = "terminal" THEN <<>> ELSE base_prompt_of(d, DevPrompt(TextDevice(d)))

\* a session that holds `text` in its read buffer, at the position `label`
TextInput(d, text, cmd, sc, sp, label) ==
  /\ dialect = d
  /\ output = text
  /\ todo = cmd
  /\ base_prompt = IF label = "read" THEN TextPrompt(d) ELSE <<>>
  /\ call = [NoCall EXCEPT !.strip_command = sc, !.strip_prompt = sp]
  /\ pc = label
  /\ dev = TextDevice(IF d \in StripDialects THEN d ELSE "cisco_ios")
  /\ secret = <<>>
  /\ preempt_privilege = FALSE
  /\ delimeter_list = <<>>
  /\ op = "none"
  /\ found = FALSE
  /\ base_pattern = initial_base_pattern(d)
  /\ err = "none"
  /\ result = None
  /\ writes = <<>>
  /\ transports = <<>>
  /\ steps = <<>>
  /\ calls = 0
  /\ log = <<>>
  /\ after_timeout = {}
  /\ potential_matches = <<>>
  /\ rule_idx = 0
  /\ scores = <<>>
  /\ timeouts = 0
  /\ inbox = <<>>
  /\ stream = <<>>

InitText ==
  \/ \E d \in TextDialects, t \in Texts : TextInput(d, t, <<>>, TRUE, TRUE, "text")
  \/ \E d \in StripDialects, b \in Bodies, sc \in BOOLEAN, sp \in BOOLEAN :
       TextInput(d, Answer(TextDevice(d), ls, b), <<normalize_cmd(d, ls)>>, sc, sp, "read")

textFrame == <<dialect, secret, preempt_privilege, delimeter_list, op, todo, found, base_prompt, base_pattern, err, writes,
               transports, steps, calls, call, log, after_timeout, potential_matches,
               rule_idx, scores, timeouts, inbox, stream, dev>>

\* _normalize_linefeeds(text)
NormalizeText ==
  /\ pc = "text"
  /\ result' = normalize_linefeeds_of(dialect, output)
  /\ pc' = "normalized"
  /\ UNCHANGED <<textFrame, output>>

\* _normalize_linefeeds of what _normalize_linefeeds returned
NormalizeAgain ==
  /\ pc = "normalized"
  /\ output' = result
  /\ result' = normalize_linefeeds_of(dialect, result)
  /\ pc' = "renormalized"
  /\ UNCHANGED textFrame

\* _send_command on what it read
StripRead ==
  /\ pc = "read"
  /\ result' = send_command_output(Head(todo), output, base_prompt,
                                   call.strip_command, call.strip_prompt)
  /\ pc' = "returned"
  /\ UNCHANGED <<textFrame, output>>

NextText == NormalizeText \/ NormalizeAgain \/ StripRead
SpecText == InitText /\ [][NextText]_vars

\* C20: normalizing an already normalized text gives the same text, for the
\* default normalizer and for the NX-OS and Fujitsu overrides
C20_NormalizeIdempotent == pc = "renormalized" => result = output
\* the same for the NX-OS override alone
C20_NxosIdempotent == pc = "renormalized" /\ dialect = "cisco_nxos" => result = output

\* the lines of a text, and the last of them
Lines(text) == Split(text, LF)
LastLine(text) == Lines(text)[Len(Lines(text))]
\* the text that was read, with the line ends of the session's class
ReadText == normalize_linefeeds_of(dialect, output)
\* send_command returned what it made of the text it read
Stripped == pc = "returned"

\* C16 as stated: with strip_prompt the last line of the returned string does
\* not contain base_prompt
C16_LastLineLacksPrompt ==
  Stripped /\ call.strip_prompt => ~Contains(LastLine(result), base_prompt)

\* the text without its backspaces
NoBackspace(text) == SelectSeq(text, LAMBDA c : c /= BS)

\* C16: with strip_prompt (and the echo kept) the returned string is the text
\* read without its last line, the prompt line; and whatever the flags, its last
\* line does not contain a non-empty base_prompt when no line before the prompt
\* line contains it, backspaces apart
C16_PromptLineDropped ==
  Stripped /\ call.strip_prompt =>
    LET lines == Lines(ReadText)
        before == SubSeq(lines, 1, Len(lines) - 1)
    IN /\ ~call.strip_command => result = Join(before, LF)
       /\ base_prompt /= <<>> /\ (\A i \in DOMAIN before :
                                     ~Contains(NoBackspace(before[i]), base_prompt))
            => ~Contains(LastLine(result), base_prompt)

\* a prompt line was dropped and a body line is the last line
C16_Witness ==
  /\ Stripped
  /\ call.strip_prompt
  /\ base_prompt /= <<>>
  /\ result /= <<>>
  /\ Len(Lines(result)) = Len(Lines(ReadText)) - 1
  /\ ~Contains(LastLine(result), base_prompt)

\* the text read after the echo and its line end, backspaces apart
AfterEcho == Drop(NoBackspace(ReadText), Len(Head(todo)))

\* C17 as stated: with strip_command the returned string does not start with
\* the command text
C17_NoLeadingCommand ==
  Stripped /\ call.strip_command => ~IsPrefix(RStripEOL(Head(todo)), result)

\* C17: with strip_command the returned string is the beginning of what follows
\* the echo line in the text read, so it starts with the command text exactly
\* when the body does
C17_EchoLineCut ==
  Stripped /\ call.strip_command =>
    /\ IsPrefix(result, AfterEcho)
    /\ IsPrefix(RStripEOL(Head(todo)), result) <=> IsPrefix(RStripEOL(Head(todo)), AfterEcho)

\* the echo was cut from a text with a body
C17_Witness ==
  /\ Stripped
  /\ call.strip_command
  /\ result /= <<>>
  /\ ~IsPrefix(RStripEOL(Head(todo)), result)
  /\ IsPrefix(RStripEOL(Head(todo)), output)

\* --------------------------------------------------- configuration sessions
\* A scoped session on an IOS device whose body calls send_config_set with
\* either value of exit_config_mode, with a list of commands or with something
\* that cannot be iterated, and the mode operations on their own.
InitConfig ==
  /\ dev \in Devices("cisco_ios")
  /\ \E s \in Secrets("cisco_ios", dev) : Constructed("cisco_ios", s)

\* send_config_set with any arguments
ConfigCall == \E it \in BOOLEAN, xc \in BOOLEAN : send_config_set(it, xc, TRUE)

NextConfig ==
  \/ Enter
  \/ DevRespond
  \/ ReadChunk
  \/ ReadTimeout
  \/ EstablishDone
  \/ FindPromptDone
  \/ EnableChecked1
  \/ EnableAnswered
  \/ SecretAnswered
  \/ EnableChecked2
  \/ DisablePagingDone
  \/ ConfigCall
  \/ ConfigChecked1
  \/ ConfigEntered
  \/ ConfigChecked2
  \/ ConfigLineDone
  \/ ExitConfigChecked1
  \/ ExitConfigLeft
  \/ ExitConfigChecked2
  \/ EnableMode
  \/ ExitEnableMode
  \/ ExitEnableChecked1
  \/ ExitEnableLeft
  \/ ExitEnableChecked2
  \/ Exit

SpecConfig == InitConfig /\ [][NextConfig]_vars

\* a step in which a mode operation returns to its caller without an exception;
\* the cleanup of the exit returns when the transport is closed after it
EnableReturned ==
  pc \in {"en_chk1", "en_chk2"} /\ pc' \notin {"en_chk1", "en_chk2", "en_cmd"} /\ err' = "none"
ExitEnableReturned ==
  pc \in {"xe_chk1", "xe_chk2"} /\ pc' \notin {"xe_chk1", "xe_chk2", "xe_cmd"} /\ err' = "none"
ConfigReturned ==
  pc \in {"cfg_chk1", "cfg_chk2"} /\ pc' \notin {"cfg_chk1", "cfg_chk2", "cfg_cmd"} /\ err' = "none"
ExitConfigReturned ==
  /\ pc \in {"xc_chk1", "xc_chk2"}
  /\ pc' \notin {"xc_chk1", "xc_chk2", "xc_cmd"}
  /\ IF op = "exit" THEN transports' /= transports ELSE err' = "none"
\* the step after the check that follows the transition command
SecondCheckOver(label) == pc = label /\ found /\ pc' /= pc

C11_Refused ==
  /\ op = "send_config_set"
  /\ pc = "idle"
  /\ err = "ValueError"
  /\ call.iterable
  /\ dev.mode = "user"

\* send_config_set returned to the body without an exception
ConfigSetReturned == op = "send_config_set" /\ pc = "idle" /\ err = "none"
\* the configuration commands the session has written, in the order of writing
SentConfig ==
  SelectSeq(writes, LAMBDA w : RStripEOL(w) \in Range(ConfigCommands) /\ w /= <<LF>>)

C12_WitnessDefault ==
  /\ ConfigSetReturned
  /\ call.exit_config_mode
  /\ normalize_cmd(dialect, config_exit(dialect)) \in Range(writes)

\* C15 as stated: send_config_set with something that cannot be iterated raises
\* ValueError at once: no line of the call is written first
C15_RaisesBeforeWriting ==
  op = "send_config_set" /\ ~call.iterable =>
    /\ pc = "idle"
    /\ err = "ValueError"
    /\ calls = 1 => normalize_cmd(dialect, config_enter(dialect)) \notin Range(writes)
\* what the IOS-like call does instead: ValueError with the device left in
\* configuration mode
C15_LeftInConfig ==
  /\ op = "send_config_set"
  /\ ~call.iterable
  /\ pc = "idle"
  /\ err = "ValueError"
  /\ dev.mode = "config"
  /\ SentConfig = <<>>

\* ------------------------------------------------------- send_command flags
\* A scoped session on an IOS device in privileged mode whose body calls
\* send_command with either value of strip_command and of strip_prompt.
FlagCommands == ShowCommands \cup {sh_host}
\* the commands whose body prints the hostname
HostnameCommands == {sh_nbr, sh_host}

InitFlags ==
  /\ dev = Device("cisco_ios", "enable", FALSE, FALSE, NoProfile)
  /\ Constructed("cisco_ios", GoodSecret)

\* send_command with any flags
FlagCall ==
  \E c \in FlagCommands, sc \in BOOLEAN, sp \in BOOLEAN : send_command(c, sc, sp)

NextFlags ==
  \/ Enter
  \/ DevRespond
  \/ ReadChunk
  \/ ReadTimeout
  \/ EstablishDone
  \/ FindPromptDone
  \/ EnableChecked1
  \/ DisablePagingDone
  \/ FlagCall
  \/ SendCommandDone
  \/ ExitConfigChecked1
  \/ Exit

SpecFlags == InitFlags /\ [][NextFlags]_vars

\* send_command returned to the body; the log holds its command
CommandReturned == op = "send_command" /\ pc = "idle" /\ err = "none"
LastCommand == log[Len(log)].cmd
\* re.search finds a match of p that ends where the text ends
EndsWithMatch(p, text) == Len(text) \in Ends(p, text, 0..Len(text))

\* C18: with strip_command=false the first line of the returned text contains
\* the command, and with strip_prompt=false as well the text ends with a match
\* of base_pattern
C18_EchoAndPromptKept ==
  CommandReturned /\ ~call.strip_command =>
    /\ Contains(Lines(result)[1], LastCommand)
    /\ ~call.strip_prompt => EndsWithMatch(base_pattern, result)

\* C19: after connect base_prompt is the hostname, and send_command with the
\* default flags of a command whose body prints the hostname returns text that
\* contains base_prompt
C19_HostnameLineKept ==
  /\ InBody => base_prompt = hostname
  /\ CommandReturned /\ call.strip_command /\ call.strip_prompt
       /\ LastCommand \in HostnameCommands
     => Contains(result, base_prompt)
\* the same for the command of the tests, first in the body
C19_HostnameCommandKept ==
  /\ InBody => base_prompt = hostname
  /\ CommandReturned /\ call.strip_command /\ call.strip_prompt
       /\ LastCommand = sh_host /\ calls = 1
     => result = Body(sh_host)

\* ------------------------------------------------------------ IOS XR commits
\* A scoped session on an IOS XR device in privileged mode whose body calls
\* send_config_set once, with or without the commit; the device accepts the
\* commit, refuses it, or tells of the commits of another session.
CommitOutcomes == {"ok", "failed", "conflict"}

InitXR ==
  /\ \E c \in CommitOutcomes :
       dev = [Device("cisco_ios_xr", "enable", FALSE, FALSE, NoProfile) EXCEPT !.commit = c]
  /\ Constructed("cisco_ios_xr", GoodSecret)

\* CiscoIOSXR.send_config_set(commands, with_commit=wc)
XRConfigCall == \E wc \in BOOLEAN : send_config_set(TRUE, TRUE, wc)

NextXR ==
  \/ Enter
  \/ DevRespond
  \/ ReadChunk
  \/ ReadTimeout
  \/ EstablishDone
  \/ FindPromptDone
  \/ EnableChecked1
  \/ DisablePagingDone
  \/ XRConfigCall
  \/ ConfigChecked1
  \/ ConfigEntered
  \/ ConfigChecked2
  \/ ConfigLineDone
  \/ CommitAnswered
  \/ CommitErrorRaised
  \/ ExitConfigChecked1
  \/ ExitConfigLeft
  \/ UncommittedAnswered
  \/ ExitConfigChecked2
  \/ Exit

SpecXR == InitXR /\ [][NextXR]_vars

\* send_config_set raised CommitError; the log ends with the reason it carries
CommitFailedWith == err = "CommitError"
Reason == log[Len(log)].out
\* the lines written by send_config_set after its commit
AfterCommit ==
  LET k == CHOOSE i \in DOMAIN writes : writes[i] = normalize_cmd(dialect, commit_command)
  IN SubSeq(writes, k + 1, Len(writes))

\* C13: on a commit conflict send_config_set writes no, then the query, and
\* raises CommitError with exactly the body of `show configuration commit
\* changes` as its reason
C13_ConflictReason ==
  CommitFailedWith /\ dev.commit = "conflict" =>
    /\ IsPrefix(<<normalize_cmd(dialect, answer_no),
                  normalize_cmd(dialect, show_commit_changes)>>, AfterCommit)
    /\ Reason = Body(show_commit_changes)
\* what is written on a conflict, whatever the reason turns out to be
C13_NoThenQuery ==
  CommitFailedWith /\ dev.commit = "conflict" =>
    IsPrefix(<<normalize_cmd(dialect, answer_no),
               normalize_cmd(dialect, show_commit_changes)>>, AfterCommit)

\* C14: when the device refuses the commit, send_config_set does not return a
\* result: it raises CommitError (or the read of an answer times out), the
\* reason of the CommitError is the body of `show configuration failed`, and the
\* call has not written `end`
C14_FailedCommitRaises ==
  /\ op = "send_config_set" /\ pc = "idle" /\ call.with_commit /\ dev.commit = "failed"
       => err /= "none" /\ result = None
  /\ CommitFailedWith /\ dev.commit = "failed" =>
       /\ Reason = Body(show_config_failed)
       /\ result = None
       /\ normalize_cmd(dialect, config_exit(dialect)) \notin Range(writes)
       /\ AfterCommit \in {<<normalize_cmd(dialect, show_config_failed)>>,
                           <<normalize_cmd(dialect, show_config_failed),
                             normalize_cmd(dialect, abort_command)>>}

\* the commit was refused and CommitError left the call
C14_Witness ==
  /\ op = "send_config_set"
  /\ pc = "idle"
  /\ CommitFailedWith
  /\ dev.commit = "failed"
  /\ Reason = Body(show_config_failed)

\* ------------------------------------------------------------- ANSI texts
\* _strip_ansi_escape_codes on texts of the characters its codes are made of
MaxAnsi == 5
AnsiAlphabet == {ESC, "[", "7", "K", "E"}
AnsiTexts == UNION {[1..n -> AnsiAlphabet] : n \in 0..MaxAnsi}

InitAnsi == \E t \in AnsiTexts : TextInput("cisco_ios", t, <<>>, TRUE, TRUE, "ansi")

\* _strip_ansi_escape_codes(text)
StripAnsi ==
  /\ pc = "ansi"
  /\ result' = strip_ansi_escape_codes(output)
  /\ pc' = "stripped"
  /\ UNCHANGED <<textFrame, output>>

\* _strip_ansi_escape_codes of what _strip_ansi_escape_codes returned
StripAnsiAgain ==
  /\ pc = "stripped"
  /\ output' = result
  /\ result' = strip_ansi_escape_codes(result)
  /\ pc' = "restripped"
  /\ UNCHANGED textFrame

NextAnsi == StripAnsi \/ StripAnsiAgain
SpecAnsi == InitAnsi /\ [][NextAnsi]_vars

\* C21: stripping a text that was already stripped changes nothing
C21_StripAnsiIdempotent == pc = "restripped" => result = output
\* one pass leaves no `ESC E` behind
C21_NoNextLineLeft == pc = "stripped" => ~Contains(result, <<ESC, "E">>)

\* --------------------------------------------------------- prompts by mode
\* _set_base_prompt on the prompt a device shows at connect, and a search of
\* the pattern it built in the prompt of each mode the device can then be in
short_name == hostname
\* thirteen characters of \w: one more than goes into base_pattern
long_name == <<"a","b","c","d","e","f","g","h","i","j","k","l","m">>
\* the thirteenth character is a dot
dotted_name == <<"a","b","c","d","e","f","g","h","i","j","k","l",".","m">>
\* a dot within the first twelve characters
short_dotted_name == <<"r","-","1",".","x">>
HostNames == {short_name, long_name, dotted_name, short_dotted_name}
PromptDialects == Dialects \cup {"cisco_ios_xr"}
\* the modes a class has operations for
PromptModes(d) ==
  CASE d \in IOSFamily -> {"user", "enable", "config", "subconfig"}
    [] d \in ComwareLike -> {"user", "config"}
    [] d = "juniper_junos" -> {"user", "config"}
    [] OTHER -> {"user"}
\* the modes a device can be in when the session opens
ConnectModes(d) == IF d \in IOSFamily THEN {"user", "enable"} ELSE {"user"}

\* a session whose _find_prompt has just returned the device's prompt
PromptInput(device) ==
  /\ dialect = device.kind
  /\ dev = device
  /\ output = Strip(DevPrompt(device))
  /\ pc = "prompt"
  /\ todo = <<>>
  /\ base_prompt = <<>>
  /\ call = NoCall
  /\ secret = <<>>
  /\ preempt_privilege = FALSE
  /\ delimeter_list = <<>>
  /\ op = "none"
  /\ found = FALSE
  /\ base_pattern = initial_base_pattern(device.kind)
  /\ err = "none"
  /\ result = None
  /\ writes = <<>>
  /\ transports = <<>>
  /\ steps = <<>>
  /\ calls = 0
  /\ log = <<>>
  /\ after_timeout = {}
  /\ potential_matches = <<>>
  /\ rule_idx = 0
  /\ scores = <<>>
  /\ timeouts = 0
  /\ inbox = <<>>
  /\ stream = <<>>

InitPrompt ==
  \E d \in PromptDialects, host \in HostNames, hrp \in BOOLEAN :
    \E m \in ConnectModes(d) :
      /\ hrp => d = "huawei"
      /\ PromptInput([Device(d, m, FALSE, hrp, NoProfile) EXCEPT !.name = host])

promptFrame == <<dialect, secret, preempt_privilege, delimeter_list, op, todo, err, result, writes, transports, steps, calls,
                 call, log, after_timeout, potential_matches, rule_idx, scores, timeouts,
                 inbox, stream>>

\* _set_base_prompt, from the prompt _find_prompt returned
SetBasePrompt ==
  /\ pc = "prompt"
  /\ base_prompt' = base_prompt_of(dialect, output)
  /\ base_pattern' = pattern(dialect, base_prompt_of(dialect, output))
  /\ pc' = "prompt_set"
  /\ UNCHANGED <<promptFrame, dev, output, found>>

\* the device shows the prompt of one of its modes and the session searches it
\* as _read_until_prompt does
SearchPrompt ==
  /\ pc = "prompt_set"
  /\ \E m \in PromptModes(dialect) :
       /\ dev' = [dev EXCEPT !.mode = m]
       /\ output' = DevPrompt([dev EXCEPT !.mode = m])
       /\ found' = Search(base_pattern, DevPrompt([dev EXCEPT !.mode = m]), FALSE)
  /\ pc' = "prompt_read"
  /\ UNCHANGED <<promptFrame, promptVars>>

NextPrompt == SetBasePrompt \/ SearchPrompt
SpecPrompt == InitPrompt /\ [][NextPrompt]_vars

\* C22: the base_pattern built at connect finds the prompt of every mode the
\* class supports, for every class and every hostname
C22_PatternFindsPrompt == pc = "prompt_read" => found
\* the prompts it does not find are those of Comware-like classes with a
\* hostname whose characters after the twelfth are not all of [-\w]
C22_MissedOnlyOnComwareTail ==
  pc = "prompt_read" /\ ~found => dialect \in ComwareLike /\ dev.name = dotted_name
\* the prompt of a mode below config is found on IOS-like classes
C22_SubConfigFound ==
  pc = "prompt_read" /\ dialect \in IOSFamily /\ dev.mode = "subconfig" => found

\* ------------------------------------------------------ reads that must end
\* Sessions whose device can close the channel while a read is in progress.
\* The event loop runs every coroutine that can run and fires every timer, so
\* the steps of the session and of the device are weakly fair; the calls of the
\* body and the device's hang-up are not.
LiveDialects == {"cisco_ios", "juniper_junos", "terminal"}
InitLive ==
  \E d \in LiveDialects :
    /\ dev \in Devices(d)
    /\ \E s \in Secrets(d, dev) : Constructed(d, s)

LiveStep ==
  \/ DevRespond
  \/ ReadChunk
  \/ ReadEmpty
  \/ ReadTimeout
  \/ EstablishDone
  \/ FindPromptDone
  \/ EnableChecked1
  \/ EnableAnswered
  \/ SecretAnswered
  \/ EnableChecked2
  \/ CliChecked1
  \/ CliEntered
  \/ CliChecked2
  \/ DisablePagingDone
  \/ ExitConfigChecked1

NextLive == Enter \/ Exit \/ DevHangUp \/ LiveStep
SpecLive == InitLive /\ [][NextLive]_vars /\ WF_vars(LiveStep)

\* C23: a read that has begun ends, by returning or by raising, and with it the
\* call that made it
C23_ReadEnds == (pc \in ReadPcs) ~> (pc = "idle")
\* it does end as long as the device keeps the channel open
C23_ReadEndsWhileOpen == (pc \in ReadPcs) ~> (pc = "idle" \/ AtEof)
\* the read that does not end: at end of file with nothing left to read
C23_ReadingAtEof == pc \in ReadPcs /\ AtEof /\ stream = <<>> /\ ENABLED ReadEmpty

\* ------------------------------------------------------- HW1000's shell mode
\* what the steps of enter_shell_mode and exit_shell_mode leave alone
shellFrame == <<dialect, secret, preempt_privilege, delimeter_list, steps, potential_matches, rule_idx, scores, timeouts,
                stream, dev, op, calls, call, log, todo>>

\* enter_shell_mode() called from the body, up to the read of check_shell_mode
EnterShellMode ==
  /\ InBody
  /\ calls < CallBound(dialect)
  /\ dialect = "hw1000"
  /\ op' = "enter_shell_mode"
  /\ calls' = calls + 1
  /\ call' = NoCall
  /\ WriteAs("enter_shell_mode", normalize_cmd(dialect, <<LF>>))
  /\ StartRead("sh_chk1")
  /\ UNCHANGED <<callFrame, transports, log, todo, err, result>>

\* exit_shell_mode() called from the body, up to the read of check_shell_mode
ExitShellMode ==
  /\ InBody
  /\ calls < CallBound(dialect)
  /\ dialect = "hw1000"
  /\ op' = "exit_shell_mode"
  /\ calls' = calls + 1
  /\ call' = NoCall
  /\ WriteAs("exit_shell_mode", normalize_cmd(dialect, <<LF>>))
  /\ StartRead("xs_chk1")
  /\ UNCHANGED <<callFrame, transports, log, todo, err, result>>

\* enter_shell_mode after its first check_shell_mode
ShellChecked1 ==
  /\ pc = "sh_chk1"
  /\ found
  /\ IF Contains(output, shell_check)
     THEN Return(<<>>) /\ UNCHANGED <<writes, inbox, after_timeout, transports>>
     ELSE Then(normalize_cmd(dialect, shell_enter), "sh_msg")
  /\ UNCHANGED <<shellFrame, promptVars>>

\* the device asked whether to leave for the shell
ShellAsked ==
  /\ pc = "sh_msg"
  /\ found
  /\ Then(normalize_cmd(dialect, answer_yes), "sh_pwd")
  /\ UNCHANGED <<shellFrame, promptVars>>

\* the device asked for the password
ShellPassword ==
  /\ pc = "sh_pwd"
  /\ found
  /\ Then(normalize_cmd(dialect, secret), "sh_in")
  /\ UNCHANGED <<shellFrame, promptVars>>

\* the shell's prompt was read: _set_base_prompt begins with _find_prompt
ShellEntered ==
  /\ pc = "sh_in"
  /\ found
  /\ Then(normalize_cmd(dialect, <<LF>>), "sh_fp")
  /\ UNCHANGED <<shellFrame, promptVars>>

\* _set_base_prompt within enter_shell_mode, then the second check_shell_mode
ShellPromptSet ==
  /\ pc = "sh_fp"
  /\ found
  /\ LET prompt == found_prompt(output)
     IN IF prompt = <<>>
        THEN Throw("ValueError") /\ UNCHANGED promptVars
        ELSE /\ base_prompt' = base_prompt_of(dialect, prompt)
             /\ base_pattern' = pattern(dialect, base_prompt_of(dialect, prompt))
             /\ Then(normalize_cmd(dialect, <<LF>>), "sh_chk2")
  /\ UNCHANGED shellFrame

\* enter_shell_mode after its second check_shell_mode
ShellChecked2 ==
  /\ pc = "sh_chk2"
  /\ found
  /\ IF Contains(output, shell_check) THEN Return(<<>>) ELSE Raise("ValueError")
  /\ UNCHANGED <<shellFrame, promptVars, writes, inbox, after_timeout, transports>>

\* a cleanup that leaves the shell and not the privilege mode
cleanup_shell_only == <<"exit_shell_mode">>
\* the calls of HW1000's _cleanup, in their order
cleanup_calls == <<"exit_shell_mode", "exit_enable_mode">>

\* exit_shell_mode returns: to the body, or to _cleanup, which goes on with
\* exit_enable_mode
ExitShellReturns ==
  IF op = "exit" /\ Len(cleanup_calls) > 1
  THEN Then(normalize_cmd(dialect, <<LF>>), "xe_chk1")
  ELSE IF op = "exit"
  THEN /\ transports' = close_transport(transports)
       /\ pc' = "idle"
       /\ result' = None
       /\ output' = <<>>
       /\ found' = FALSE
       /\ UNCHANGED <<err, writes, inbox, after_timeout>>
  ELSE Return(<<>>) /\ UNCHANGED <<writes, inbox, after_timeout, transports>>

\* exit_shell_mode after its first check_shell_mode
ExitShellChecked1 ==
  /\ pc = "xs_chk1"
  /\ found
  /\ IF Contains(output, shell_check)
     THEN Then(normalize_cmd(dialect, shell_exit), "xs_cmd")
     ELSE ExitShellReturns
  /\ UNCHANGED <<shellFrame, promptVars>>

\* the answer to the shell's exit was read: the second check_shell_mode
ExitShellLeft ==
  /\ pc = "xs_cmd"
  /\ found
  /\ Then(normalize_cmd(dialect, <<LF>>), "xs_chk2")
  /\ UNCHANGED <<shellFrame, promptVars>>

\* exit_shell_mode after its second check_shell_mode: _set_base_prompt begins
ExitShellChecked2 ==
  /\ pc = "xs_chk2"
  /\ found
  /\ IF Contains(output, shell_check)
     THEN Throw("ValueError")
     ELSE Then(normalize_cmd(dialect, <<LF>>), "xs_fp")
  /\ UNCHANGED <<shellFrame, promptVars>>

\* _set_base_prompt within exit_shell_mode, which then returns
ExitShellPromptSet ==
  /\ pc = "xs_fp"
  /\ found
  /\ LET prompt == found_prompt(output)
     IN IF prompt = <<>>
        THEN Throw("ValueError") /\ UNCHANGED promptVars
        ELSE /\ base_prompt' = base_prompt_of(dialect, prompt)
             /\ base_pattern' = pattern(dialect, base_prompt_of(dialect, prompt))
             /\ ExitShellReturns
  /\ UNCHANGED shellFrame

\* Every class's session with the calls of its body, and an HW1000 session with
\* its shell
InitFrame ==
  \/ InitSession
  \/ /\ dev \in Devices("hw1000")
     /\ \E s \in Secrets("hw1000", dev) : Constructed("hw1000", s)

NextFrame ==
  \/ NextSession
  \/ EnableMode
  \/ ExitEnableMode
  \/ ExitEnableChecked1
  \/ ExitEnableLeft
  \/ ExitEnableChecked2
  \/ EnterShellMode
  \/ ExitShellMode
  \/ ShellChecked1
  \/ ShellAsked
  \/ ShellPassword
  \/ ShellEntered
  \/ ShellPromptSet
  \/ ShellChecked2
  \/ ExitShellChecked1
  \/ ExitShellLeft
  \/ ExitShellChecked2
  \/ ExitShellPromptSet
SpecFrame == InitFrame /\ [][NextFrame]_vars

\* C24 as stated: base_prompt changes only in connect's _set_base_prompt
C24_SetOnlyByConnect == [][base_prompt' /= base_prompt => pc = "fp_read"]_vars

\* C24 (as amended): base_prompt changes only where _set_base_prompt runs: in
\* connect, where it becomes the name in the device's prompt unless a read
\* timed out before, and on HW1000 in enter_shell_mode and exit_shell_mode (also
\* when the cleanup calls it)
C24_SetOnlyBySetBasePrompt ==
  [][base_prompt' /= base_prompt =>
       /\ \/ pc = "fp_read" /\ op = "enter"
          \/ dialect = "hw1000" /\ pc \in {"sh_fp", "xs_fp"}
       /\ op = "enter" /\ timeouts = 0 => base_prompt' \in {hostname, hostname \o <<"-">>}]_vars

\* an HW1000 session back from enter_shell_mode with the shell's name as base_prompt
C24_Witness ==
  /\ dialect = "hw1000"
  /\ op = "enter_shell_mode"
  /\ pc = "idle"
  /\ err = "none"
  /\ dev.mode = "shell"
  /\ base_prompt = shell_name
\* the cleanup of an HW1000 session left in the shell sets base_prompt back
C24_CleanupResets ==
  /\ dialect = "hw1000"
  /\ op = "exit"
  /\ pc = "idle"
  /\ calls = 1
  /\ base_prompt = hostname
  /\ dev.mode = "user"

\* ---------------------------------------------------- the probe of one rule
\* the step in which the read of a probe command times out
ProbeTimesOut == pc = "probe_read" /\ timeouts' = timeouts + 1

\* C25: an exception raised while a probe command is sent or its response read
\* inside _autodetect_std (the read's Timeout) is absorbed and scored zero:
\* autodetect() goes on to the next rule, or returns None after the last one, and
\* once the rules have begun it never raises.
C25_ProbeErrorAbsorbed ==
  /\ []((op = "autodetect" /\ rule_idx >= 1) => err = "none")
  /\ [][ProbeTimesOut =>
          /\ err' = "none"
          /\ scores' = Append(scores, 0)
          /\ UNCHANGED <<potential_matches, transports>>
          /\ IF rule_idx < Len(SSH_MAPPER_BASE)
             THEN pc' = "rule" /\ rule_idx' = rule_idx + 1
             ELSE pc' = "idle" /\ result' = None]_vars

\* a probe timed out and the next rule's command was written
C25_Witness ==
  /\ op = "autodetect"
  /\ pc = "probe_read"
  /\ err = "none"
  /\ timeouts > 0
  /\ rule_idx > 1
  /\ scores[rule_idx - 1] = 0
  /\ writes[Len(writes)] = normalize_cmd(dialect, SSH_MAPPER_BASE[rule_idx].cmd)

\* ------------------------------------------------------ _autodetect_std alone
\* _autodetect_std for one rule on one response: the rule is todo[1], the
\* response _send_command returns is `output`
ScoreCmds == {<<>>, cmd_show_version}
ScorePatterns == {<<>>, <<"Arista">>, <<"Nokia", "Alcatel">>}
ScorePriorities == {99, 50}
ScoreRules ==
  {[family |-> "rule", cmd |-> c, search_patterns |-> ps, priority |-> p] :
     c \in ScoreCmds, ps \in ScorePatterns, p \in ScorePriorities}
\* what a response can hold: two of the signatures, the patterns, other text
ScoreAtoms == {invalid_responses[1], invalid_responses[4], "Arista", "Nokia", "Alcatel", "text"}
MaxAtoms == 2
Responses == UNION {[1..n -> ScoreAtoms] : n \in 0..MaxAtoms}

InitScore == \E rule \in ScoreRules : TextInput("autodetect", <<>>, <<rule>>, TRUE, TRUE, "rule")

scoreFrame == <<dialect, secret, preempt_privilege, delimeter_list, op, todo, found, base_prompt, base_pattern, err, transports,
                steps, calls, call, log, after_timeout, potential_matches, rule_idx, timeouts,
                inbox, stream, dev>>

\* `if not cmd or not search_patterns: return 0`, else the command is written
ScoreRule ==
  /\ pc = "rule"
  /\ IF todo[1].cmd = <<>> \/ todo[1].search_patterns = <<>>
     THEN /\ scores' = Append(scores, 0)
          /\ pc' = "scored"
          /\ UNCHANGED <<writes, output, result>>
     ELSE /\ writes' = Append(writes, normalize_cmd(dialect, todo[1].cmd))
          /\ pc' = "probe_read"
          /\ UNCHANGED <<scores, output, result>>
  /\ UNCHANGED scoreFrame

\* the response has come back: the two loops over the patterns
ScoreResponse ==
  /\ pc = "probe_read"
  /\ \E response \in Responses :
       /\ output' = response
       /\ scores' = Append(scores, autodetect_std_score(todo[1], response))
  /\ pc' = "scored"
  /\ UNCHANGED <<scoreFrame, writes, result>>

NextScore == ScoreRule \/ ScoreResponse
SpecScore == InitScore /\ [][NextScore]_vars

HasSignature(response) == \E i \in DOMAIN invalid_responses : invalid_responses[i] \in Range(response)
MatchesRule(rule, response) == \E j \in DOMAIN rule.search_patterns : rule.search_patterns[j] \in Range(response)

\* C26: a response with an invalid-command signature scores 0 even if a search
\* pattern matches it too; one without a signature scores the rule's priority if
\* and only if a search pattern matches, else 0; a rule with an empty cmd or no
\* search patterns scores 0 and nothing is written.
C26_ScoreOfResponse ==
  pc = "scored" =>
    /\ Len(scores) = 1
    /\ (todo[1].cmd = <<>> \/ todo[1].search_patterns = <<>>) =>
         (scores[1] = 0 /\ writes = <<>>)
    /\ (todo[1].cmd /= <<>> /\ todo[1].search_patterns /= <<>>) =>
         /\ writes = <<normalize_cmd(dialect, todo[1].cmd)>>
         /\ HasSignature(output) => scores[1] = 0
         /\ ~HasSignature(output) =>
              scores[1] = IF MatchesRule(todo[1], output) THEN todo[1].priority ELSE 0

\* a response that holds a signature and a search pattern of the rule was scored
C26_Witness ==
  /\ pc = "scored"
  /\ writes /= <<>>
  /\ HasSignature(output)
  /\ MatchesRule(todo[1], output)
  /\ scores = <<0>>
\* a rule without a command was scored
C26_EmptyCmdScored == pc = "scored" /\ todo[1].cmd = <<>> /\ todo[1].search_patterns /= <<>> /\ writes = <<>>
\* a match without a signature scored the priority
C26_PriorityScored == pc = "scored" /\ scores = <<50>> /\ ~HasSignature(output)

\* ------------------------------------------------------- rule tables sorted
\* the construction of SSH_MAPPER_BASE on rule tables of up to MaxRules families
\* that probe with one of three commands; the table is `todo`, in the order of
\* the dict
MaxRules == 4
TableCmds == {cmd_show_version, cmd_show_system, cmd_software_show}
TableFamilies == <<"f1", "f2", "f3", "f4", "f5", "f6">>
RuleTables ==
  UNION {{[i \in 1..n |-> [family |-> TableFamilies[i], cmd |-> cmds[i],
                           search_patterns |-> <<"text">>, priority |-> 99]] :
            cmds \in [1..n -> TableCmds]} : n \in 0..MaxRules}

InitTable == \E table \in RuleTables : TextInput("autodetect", <<>>, table, TRUE, TRUE, "table")

\* the module's `sorted(...)` and `.reverse()`
SortTable ==
  /\ pc = "table"
  /\ result' = mapper_base(todo)
  /\ pc' = "sorted"
  /\ UNCHANGED <<textFrame, output>>

NextTable == SortTable
SpecTable == InitTable /\ [][NextTable]_vars

\* no rule with another cmd lies between two rules with the same cmd
Contiguous(base) ==
  \A i, j, k \in DOMAIN base :
    (i < j /\ j < k /\ base[i].cmd = base[k].cmd) => base[j].cmd = base[i].cmd
\* the number of families that share a rule's cmd never grows along the order
CountsNonIncreasing(dict, base) ==
  \A i, j \in DOMAIN base : i < j => cmd_count(dict, base[i].cmd) >= cmd_count(dict, base[j].cmd)

\* C27: in the order built from any rule table the rules that share a cmd are
\* contiguous, and the groups come by non-increasing number of families that
\* share the cmd.
C27_GroupedBySharedCmd ==
  pc = "sorted" => (Contiguous(result) /\ CountsNonIncreasing(todo, result))

\* the order is by non-increasing count, and holds the rules of the table
C27_OrderedByCount ==
  pc = "sorted" =>
    /\ CountsNonIncreasing(todo, result)
    /\ Len(result) = Len(todo)
    /\ Range(result) = Range(todo)
\* the table of the module is grouped
C27_CurrentTableGrouped ==
  Contiguous(SSH_MAPPER_BASE) /\ CountsNonIncreasing(SSH_MAPPER_DICT, SSH_MAPPER_BASE)
\* two commands shared by two families each, in turn
C27_SplitGroups ==
  /\ pc = "sorted"
  /\ Len(todo) = 4
  /\ todo[1].cmd = todo[3].cmd /\ todo[2].cmd = todo[4].cmd /\ todo[1].cmd /= todo[2].cmd
  /\ [i \in 1..4 |-> result[i].family] = <<"f4", "f3", "f2", "f1">>

\* ------------------------------------------- Comware and JunOS configuration
\* A scoped session on a Comware or a JunOS device whose body calls
\* send_config_set once, with any arguments
WrapDialects == {"hp_comware", "juniper_junos"}
CommitComments == {<<>>, <<"c", "1">>}
JunosCommitOutcomes == {"ok", "failed"}

\* the vendor's send_config_set up to the read of its first check: _system_view
\* and config_mode begin with the check of the prompt
vendor_send_config_set(xc, wc, cc) ==
  /\ InBody
  /\ calls < MaxCalls
  /\ op' = "send_config_set"
  /\ calls' = calls + 1
  /\ todo' = ConfigCommands
  /\ call' = [NoCall EXCEPT !.exit_config_mode = xc, !.with_commit = wc, !.commit_comment = cc]
  /\ WriteAs("send_config_set", normalize_cmd(dialect, <<LF>>))
  /\ StartRead("cfg_chk1")
  /\ UNCHANGED <<callFrame, transports, log, err, result>>

\* ComwareLikeDevice.send_config_set(config_commands, exit_system_view=xv)
ComwareSendConfigSet ==
  /\ dialect \in ComwareLike
  /\ \E xv \in BOOLEAN : vendor_send_config_set(xv, FALSE, <<>>)

\* JunOSLikeDevice.send_config_set(config_commands, with_commit, commit_comment,
\* exit_config_mode)
JunosSendConfigSet ==
  /\ dialect = "juniper_junos"
  /\ \E xc \in BOOLEAN, wc \in BOOLEAN, cc \in CommitComments : vendor_send_config_set(xc, wc, cc)

\* JunOS's send_config_set read the prompt after its commit: the answer goes to
\* the output, and exit_config_mode follows
JunosCommitted ==
  /\ pc = "jn_commit"
  /\ found
  /\ AfterConfigLines(call.out \o output)
  /\ UNCHANGED <<callFrame, op, calls, log, todo>>

InitWrap ==
  \E d \in WrapDialects, c \in JunosCommitOutcomes :
    /\ dev = [Device(d, "user", FALSE, FALSE, NoProfile) EXCEPT !.commit = c]
    /\ Constructed(d, <<>>)

NextWrap ==
  \/ Enter
  \/ DevRespond
  \/ ReadChunk
  \/ ReadTimeout
  \/ EstablishDone
  \/ FindPromptDone
  \/ CliChecked1
  \/ DisablePagingDone
  \/ ComwareSendConfigSet
  \/ JunosSendConfigSet
  \/ ConfigChecked1
  \/ ConfigEntered
  \/ ConfigChecked2
  \/ ConfigLineDone
  \/ JunosCommitted
  \/ ExitConfigChecked1
  \/ ExitConfigLeft
  \/ ExitConfigChecked2
  \/ Exit

SpecWrap == InitWrap /\ [][NextWrap]_vars

\* the lines one send_config_set writes: the check, the line that enters the
\* mode unless the device is in it, the commands, the commit, and what
\* exit_config_mode writes
ConfigSetLines(d, in_config, c) ==
  LET line(l) == normalize_cmd(d, l)
  IN <<line(<<LF>>)>> \o
     (IF in_config THEN <<>> ELSE <<line(config_enter(d)), line(<<LF>>)>>) \o
     [i \in DOMAIN ConfigCommands |-> line(ConfigCommands[i])] \o
     (IF d = "juniper_junos" /\ c.with_commit
      THEN <<line(IF c.commit_comment /= <<>>
                  THEN <<"c","o","m","m","i","t"," ","c","o","m","m","e","n","t"," ">> \o c.commit_comment
                  ELSE <<"c","o","m","m","i","t">>)>>
      ELSE <<>>) \o
     (IF c.exit_config_mode THEN <<line(<<LF>>), line(config_exit(d)), line(<<LF>>)>> ELSE <<>>)
\* the lines connect writes on a device in its first mode: _find_prompt's,
\* JunOS's check_cli_mode's, and the one that disables paging
ConnectLines(d) ==
  <<normalize_cmd(d, <<LF>>)>> \o
  (IF d = "juniper_junos" THEN <<normalize_cmd(d, <<LF>>)>> ELSE <<>>) \o
  <<normalize_cmd(d, disable_paging_command(d))>>
\* the arguments of an earlier call
CallsBefore ==
  {[NoCall EXCEPT !.exit_config_mode = xc, !.with_commit = wc, !.commit_comment = cc] :
     xc \in BOOLEAN, wc \in BOOLEAN, cc \in CommitComments}
\* the lines written before the n+1-th call of the body begins, each with
\* whether the calls before it have left the device in configuration mode
RECURSIVE EarlierCalls(_, _)
EarlierCalls(d, n) ==
  IF n = 0 THEN {[lines |-> ConnectLines(d), in_config |-> FALSE]}
  ELSE {[lines |-> e.lines \o ConfigSetLines(d, e.in_config, c1),
         in_config |-> ~c1.exit_config_mode] : e \in EarlierCalls(d, n - 1), c1 \in CallsBefore}
\* the lines written up to the return of a call: the call begins in the mode
\* the calls before it have left the device in
WritesOfCalls(d, c) ==
  {e.lines \o ConfigSetLines(d, e.in_config, c) : e \in EarlierCalls(d, calls - 1)}

\* C28 (as stated): Comware-like send_config_set called with its default
\* arguments (exit_system_view=False) on a device in user view writes system-view
\* before the first command, and the device is back in user view when it returns.
C28_BackInUserView ==
  (dialect \in ComwareLike /\ ConfigSetReturned /\ calls = 1 /\ ~call.exit_config_mode) =>
    /\ writes = ConnectLines(dialect) \o ConfigSetLines(dialect, FALSE, call)
    /\ dev.mode = "user"

\* what the call does: system-view is written before the first command, and
\* `return` is written, and the device back in user view, only with
\* exit_system_view=True
C28_ExitsOnlyWhenAsked ==
  (dialect \in ComwareLike /\ ConfigSetReturned) =>
    /\ writes \in WritesOfCalls(dialect, call)
    /\ dev.mode = (IF call.exit_config_mode THEN "user" ELSE "config")
    /\ normalize_cmd(dialect, system_view_exit) \in Range(ConfigSetLines(dialect, FALSE, call))
         <=> call.exit_config_mode
\* the call with the default has returned with the device in system view
C28_LeftInSystemView ==
  /\ dialect \in ComwareLike
  /\ ConfigSetReturned
  /\ calls = 1
  /\ ~call.exit_config_mode
  /\ dev.mode = "config"
  /\ normalize_cmd(dialect, system_view_enter) \in Range(writes)
  /\ normalize_cmd(dialect, system_view_exit) \notin Range(writes)

\* the step writes a commit line
CommitWritten ==
  /\ Len(writes') = Len(writes) + 1
  /\ IsPrefix(commit_command, writes'[Len(writes')])

C29_NoCommitStays ==
  /\ dialect = "juniper_junos"
  /\ ConfigSetReturned
  /\ calls = 1
  /\ ~call.with_commit /\ ~call.exit_config_mode
  /\ dev.mode = "config"
  /\ \A i \in DOMAIN writes : ~IsPrefix(commit_command, writes[i])

\* C30 (as stated): a commit that the JunOS device reports as failed is raised
\* to the caller as a commit error; send_config_set does not return normally.
C30_FailedCommitRaises ==
  (dialect = "juniper_junos" /\ op = "send_config_set" /\ pc = "idle" /\ call.with_commit
     /\ dev.commit = "failed" /\ timeouts = 0
     /\ \E i \in DOMAIN writes : IsPrefix(commit_command, writes[i])) =>
    err = "CommitError"

\* what the call does with the answer to its commit: it is part of what the call
\* returns, and no line is written to ask the device why
C30_CommitAnswerReturned ==
  (dialect = "juniper_junos" /\ ConfigSetReturned /\ call.with_commit) =>
    /\ dev.commit = "failed" <=> Contains(result, JunosCommitFailed)
    /\ writes \in WritesOfCalls(dialect, call)
\* a call whose commit the device refused has returned, and the changes are not
\* committed
C30_FailedCommitReturned ==
  /\ dialect = "juniper_junos"
  /\ ConfigSetReturned
  /\ call.with_commit
  /\ dev.commit = "failed"
  /\ dev.dirty
  /\ Contains(result, JunosCommitFailed)

\* ----------------------------------------------- IOS XR exit_config_mode
\* a step of the session that is not a timed-out read
Answered == timeouts' = timeouts /\ pc' /= pc
\* the lines `no` among the lines written
NoLines == {i \in DOMAIN writes : writes[i] = normalize_cmd(dialect, answer_no)}

\* C31: when the device answers XR's exit command with `Uncommitted changes
\* found` the session writes `no` once, reads on to the prompt, and then checks
\* that configuration mode was left, raising ValueError if it was not; when the
\* device does not show that text no `no` is written.
C31_UncommittedAnsweredNo ==
  /\ []((dialect = "cisco_ios_xr" /\ ConfigSetReturned /\ calls = 1) =>
          /\ Cardinality(NoLines) = (IF call.with_commit THEN 0 ELSE 1)
          /\ dev.mode = "enable")
  /\ [][(dialect = "cisco_ios_xr" /\ pc = "xc_cmd" /\ Answered) =>
          IF Contains(output, uncommitted_found)
          THEN writes' = Append(writes, normalize_cmd(dialect, answer_no)) /\ pc' = "xr_unc"
          ELSE writes' = Append(writes, normalize_cmd(dialect, <<LF>>)) /\ pc' = "xc_chk2"]_vars
  /\ [][(dialect = "cisco_ios_xr" /\ pc = "xr_unc" /\ Answered) =>
          /\ found
          /\ writes' = Append(writes, normalize_cmd(dialect, <<LF>>))
          /\ pc' = "xc_chk2"]_vars
  /\ [][(dialect = "cisco_ios_xr" /\ pc = "xc_chk2" /\ Answered /\ op = "send_config_set") =>
          /\ writes' = writes
          /\ pc' = "idle"
          /\ err' = (IF Contains(output, config_check(dialect)) THEN "ValueError" ELSE "none")]_vars

\* the device asked, the session answered no once, and the call returned with
\* the device out of configuration mode
C31_Witness ==
  /\ dialect = "cisco_ios_xr"
  /\ ConfigSetReturned
  /\ ~call.with_commit
  /\ Cardinality(NoLines) = 1
  /\ Contains(result, uncommitted_found)
  /\ dev.mode = "enable"

\* ------------------------------------------- HW1000's privilege preemption
\* An HW1000 session constructed with either value of preempt_privilege and a
\* right or a wrong secret, and a gateway in user or in privilege mode on which
\* another administrator is or is not logged in
PreemptDevices ==
  {[Device("hw1000", m, TRUE, FALSE, NoProfile) EXCEPT !.busy = b] :
     m \in {"user", "enable"}, b \in BOOLEAN}
InitPreempt ==
  /\ dev \in PreemptDevices
  /\ \E s \in {GoodSecret, BadSecret}, pp \in BOOLEAN : ConstructedWith("hw1000", s, pp)
NextPreempt ==
  \/ Enter
  \/ DevRespond
  \/ ReadChunk
  \/ ReadTimeout
  \/ EstablishDone
  \/ FindPromptDone
  \/ EnableChecked1
  \/ EnableAnswered
  \/ SecretAnswered
  \/ EnableChecked2
SpecPreempt == InitPreempt /\ [][NextPreempt]_vars

\* the line `Yes` as the session writes it
YesLine == normalize_cmd(dialect, answer_yes)
\* the force-termination question is in what enable_mode read after the secret
ConfirmationShown ==
  pc = "en_sec" /\ found /\ Search(Lit(priv_confirm_message), output, TRUE)
\* a step in which enable_mode goes on from the read of a check or of an answer
EnableStep == pc \in {"en_chk1", "en_cmd", "en_sec", "en_chk2"} /\ pc' /= pc /\ timeouts' = timeouts

\* C32: in HW1000's enable_mode, when the force-termination question is in the
\* answer to the secret, the session writes `Yes` and goes on to the check only
\* if preempt_privilege is true; with preempt_privilege false it raises
\* ValueError, writes nothing, and connect does not return normally; a session
\* without preempt_privilege never writes `Yes`; and enable_mode returns
\* normally only from a check_enable_mode whose output holds `#`
C32_PreemptOnlyIfAllowed ==
  /\ [][(dialect = "hw1000" /\ ConfirmationShown /\ EnableStep) =>
          IF preempt_privilege
          THEN /\ writes' = writes \o <<YesLine, normalize_cmd(dialect, <<LF>>)>>
               /\ pc' = "en_chk2"
               /\ err' = "none"
          ELSE /\ writes' = writes
               /\ pc' = "idle"
               /\ err' = "ValueError"]_vars
  /\ []((dialect = "hw1000" /\ ~preempt_privilege) =>
          \A i \in DOMAIN writes : writes[i] /= YesLine)
  /\ [][(dialect = "hw1000" /\ EnableStep /\ pc' = "idle" /\ err' = "none") =>
          /\ pc \in {"en_chk1", "en_chk2"}
          /\ Contains(output, priv_check(dialect))]_vars
  /\ []((dialect = "hw1000" /\ op = "enter" /\ pc = "idle" /\ err = "none") =>
          dev.mode = "enable")
\* a session with preempt_privilege connected to a gateway that asked the
\* question: `Yes` was written and the other session is gone
C32_Witness ==
  /\ dialect = "hw1000"
  /\ preempt_privilege
  /\ op = "enter" /\ pc = "idle" /\ err = "none"
  /\ \E i \in DOMAIN writes : writes[i] = YesLine
  /\ dev.mode = "enable"
  /\ ~dev.busy
\* a session without preempt_privilege that was asked the question and raised
C32_Refused ==
  /\ dialect = "hw1000"
  /\ ~preempt_privilege
  /\ op = "enter" /\ pc = "idle" /\ err = "ValueError"
  /\ dev.mode = "preempt"

\* ------------------------------------------------------- HW1000's cleanup
\* exit_enable_mode() called from the body of an HW1000 session
HWExitEnableMode == ExitEnableModeOn({"hw1000"})

\* An HW1000 session that connects, enters or leaves the shell or leaves the
\* privilege mode in its body, and leaves the scope
InitCleanup ==
  /\ dev \in Devices("hw1000")
  /\ Constructed("hw1000", GoodSecret)
NextCleanup ==
  \/ Enter
  \/ DevRespond
  \/ ReadChunk
  \/ ReadTimeout
  \/ EstablishDone
  \/ FindPromptDone
  \/ EnableChecked1
  \/ EnableAnswered
  \/ SecretAnswered
  \/ EnableChecked2
  \/ EnterShellMode
  \/ ShellChecked1
  \/ ShellAsked
  \/ ShellPassword
  \/ ShellEntered
  \/ ShellPromptSet
  \/ ShellChecked2
  \/ ExitShellMode
  \/ ExitShellChecked1
  \/ ExitShellLeft
  \/ ExitShellChecked2
  \/ ExitShellPromptSet
  \/ HWExitEnableMode
  \/ ExitEnableChecked1
  \/ ExitEnableLeft
  \/ ExitEnableChecked2
  \/ Exit
SpecCleanup == InitCleanup /\ [][NextCleanup]_vars

\* where _cleanup is suspended within exit_shell_mode and within exit_enable_mode
CleanupShellPcs == {"xs_chk1", "xs_cmd", "xs_chk2", "xs_fp"}
CleanupEnablePcs == {"xe_chk1", "xe_cmd", "xe_chk2"}
InCleanup == dialect = "hw1000" /\ op = "exit"
\* disconnect closed the transport after _cleanup returned
CleanedUp == InCleanup /\ pc = "idle" /\ transports /= <<>> /\ ~ConnOpen /\ ~AtEof
\* the lines `exit` written since the scope was left
ExitLines == {i \in DOMAIN writes : writes[i] = normalize_cmd(dialect, shell_exit)}

C33_FromUserMode ==
  /\ CleanedUp
  /\ calls = 1
  /\ Cardinality(ExitLines) = 1
  /\ \A i \in DOMAIN writes : writes[i] /= normalize_cmd(dialect, shell_enter)
  /\ after_timeout = {}
  /\ timeouts = 0
  /\ log = <<>>
  /\ dev.mode = "user"

\* --------------------------------------------- Alcatel's read of an answer
\* a command whose echo holds the device's prompt
sh_prompt == <<"s", "h", " ">> \o DevPrompt(Device("alcatel_aos", "user", FALSE, FALSE, NoProfile))
EchoCommands == FlagCommands \cup {sh_prompt}
\* send_command on an Alcatel session
EchoCommand == \E c \in EchoCommands : send_command(c, TRUE, TRUE)

\* An Alcatel AOS session that connects, sends one command and leaves
InitEcho ==
  /\ dev \in Devices("alcatel_aos")
  /\ Constructed("alcatel_aos", <<>>)
NextEcho ==
  \/ Enter
  \/ DevRespond
  \/ ReadChunk
  \/ ReadTimeout
  \/ EstablishDone
  \/ FindPromptDone
  \/ DisablePagingDone
  \/ EchoCommand
  \/ SendCommandDone
  \/ Exit
SpecEcho == InitEcho /\ [][NextEcho]_vars

\* base_pattern matches in `out` from the character after one of its line feeds
MatchesAfterLF(out) ==
  \E i \in 1..Len(out) : out[i] = LF /\ Ends(base_pattern, out, {i}) /= {}
\* the first line of `out`, and base_pattern matching within it
FirstLine(out) == Split(out, LF)[1]
MatchesInFirstLine(out) == out /= <<>> /\ Search(base_pattern, FirstLine(out), FALSE)

\* C34: on Alcatel AOS the read of send_command has found its end only when
\* base_pattern matches from the character after a line feed of the buffer; a
\* buffer in which the pattern matches only on the first line (the echo of the
\* command) has not ended the read
C34_MatchAfterLineFeed ==
  /\ (dialect = "alcatel_aos" /\ pc = "cmd_read" /\ found) => MatchesAfterLF(output)
  /\ (dialect = "alcatel_aos" /\ pc = "cmd_read" /\ MatchesInFirstLine(output)
      /\ ~MatchesAfterLF(output)) => ~found
\* the echo of a command that holds the prompt was read and the read goes on
C34_Witness ==
  /\ dialect = "alcatel_aos"
  /\ pc = "cmd_read"
  /\ Contains(output, sh_prompt)
  /\ MatchesInFirstLine(output)
  /\ ~MatchesAfterLF(output)
  /\ ~found
\* and that command's answer was returned whole
C34_EchoReturned ==
  /\ dialect = "alcatel_aos"
  /\ op = "send_command" /\ pc = "idle" /\ err = "none"
  /\ timeouts = 0
  /\ log /= <<>> /\ log[1].cmd = sh_prompt
  /\ stream = <<>> /\ inbox = <<>>

\* --------------------------------------------------- where a read ends
\* the reads of _read_until_prompt: every read but those for another pattern
\* and those of _read_until_prompt_or_pattern
PromptReadPcs ==
  ReadPcs \ (PromptOrPatternPcs \cup
             {"est_read", "fp_read", "sh_fp", "xs_fp", "en_sec", "xc_cmd", "sh_chk1", "sh_in",
              "sh_chk2", "xs_chk1", "xs_cmd", "xs_chk2", "sh_msg", "sh_pwd"})
\* base_pattern matches a part of `out` that ends with its last character
MatchesTail(out) == Len(out) \in Ends(base_pattern, out, 0..Len(out))

\* C35 as stated: a read-until-prompt that has found its end holds a buffer whose
\* tail base_pattern matches
C35_EndsAtTail == (pc \in PromptReadPcs /\ found) => MatchesTail(output)

\* --------------------------------------------- Terminal's delimiter list
\* the lists a Terminal session is constructed with, besides None
DelimiterLists == {<<">">>, <<"$">>, <<">", "#">>}
\* the boxes it is opened on: a shell whose prompt ends in `$ ` and a router
\* whose prompt ends in `>`
TerminalDevices ==
  {Device("terminal", "user", FALSE, FALSE, NoProfile),
   Device("cisco_ios", "user", FALSE, FALSE, NoProfile)}

\* A Terminal session constructed with or without delimeter_list that connects,
\* sends one command and leaves
InitTerminal ==
  /\ dev \in TerminalDevices
  /\ \E dl \in {<<>>} \cup {<<l>> : l \in DelimiterLists} : NewSession("terminal", <<>>, FALSE, dl)
NextTerminal ==
  \/ Enter
  \/ DevRespond
  \/ ReadChunk
  \/ ReadTimeout
  \/ EstablishDone
  \/ SendCommand
  \/ SendCommandDone
  \/ Exit
SpecTerminal == InitTerminal /\ [][NextTerminal]_vars

\* the session was given a list of its own
CustomDelimiters == dialect = "terminal" /\ delimeter_list /= <<>>
\* C36 as stated: a Terminal session constructed with a delimiter list drains
\* the banner up to one of the delimiters of that list, and after connect its
\* base_pattern is the pattern formed from that list
C36_CustomDelimitersUsed ==
  CustomDelimiters =>
    /\ (pc = "est_read" /\ found) =>
         Search(delimiters_alt(delimeter_list[1]), output, FALSE)
    /\ (op = "enter" /\ pc = "idle" /\ err = "none") =>
         base_pattern = delimiters_class(delimeter_list[1])
\* what the code does: the class's list `$`, `#` whatever the session was given
C36_ClassDelimitersUsed ==
  dialect = "terminal" =>
    /\ (pc = "est_read" /\ found) =>
         Search(delimiters_alt(delimiter_list(dialect)), output, FALSE)
    /\ (op = "enter" /\ pc = "idle" /\ err = "none") =>
         base_pattern = delimiters_class(delimiter_list(dialect))
\* a session given `>` connected to the shell: the drain ended at `$`
C36_DrainedAtClassDelimiter ==
  /\ CustomDelimiters
  /\ delimeter_list[1] = <<">">>
  /\ op = "enter" /\ pc = "idle" /\ err = "none"
  /\ base_pattern = delimiters_class(<<"$", "#">>)
\* a session given `>` on the router whose prompt ends in `>`: connect times out
C36_NeverDrained ==
  /\ CustomDelimiters
  /\ delimeter_list[1] = <<">">>
  /\ dev.kind = "cisco_ios"
  /\ op = "enter" /\ pc = "idle" /\ err = timeout_error(dialect, "est_read")
  /\ timeouts = 1 /\ writes = <<>>

\* ------------------------------------------------------- a failed connect
\* connect raised after _establish_connection had opened the connection
ConnectFailedOpened ==
  /\ op = "enter" /\ pc = "idle" /\ err /= "none"
  /\ transports /= <<>>
\* C37 as stated: when connect fails after the SSH connection was opened, the
\* connection is closed when the error reaches the caller
C37_FailedConnectCloses == ConnectFailedOpened => transports[Len(transports)] = "closed"
\* what the code does: the connection of a failed connect stays as it was, and
\* nothing closes it afterwards
C37_FailedConnectStaysOpen ==
  /\ ConnectFailedOpened => transports[Len(transports)] /= "closed"
  /\ [][ConnectFailedOpened => transports' = transports]_vars

\* ------------------------------------------------ the probe used in a scope
\* `async with SSHDetect(...) as guesser:` -> __aenter__ -> connect()
ScopedEnter ==
  /\ pc = "idle"
  /\ op = "none"
  /\ dialect = "autodetect"
  /\ \E outcome \in ConnectOutcomes : establish_connection("enter", outcome)

\* guesser.autodetect() in the body of the scope: `await self.connect()` once
\* more, and _establish_connection assigns the new connection to self._conn
ScopedAutodetect ==
  /\ pc = "idle"
  /\ op = "enter"
  /\ err = "none"
  /\ dialect = "autodetect"
  /\ \E outcome \in ConnectOutcomes : establish_connection("autodetect", outcome)

\* the scope is left: __aexit__ -> disconnect(): the probe's _cleanup does
\* nothing and `self._conn.close()` closes the connection self._conn names,
\* closed already or not
ScopedExit ==
  /\ pc = "idle"
  /\ dialect = "autodetect"
  /\ op = "autodetect" \/ (op = "enter" /\ err = "none")
  /\ op' = "exit"
  /\ transports' = IF transports[Len(transports)] = "closed"
                   THEN [transports EXCEPT ![Len(transports)] = "closed twice"]
                   ELSE close_transport(transports)
  /\ pc' = "idle"
  /\ output' = <<>>
  /\ found' = FALSE
  /\ UNCHANGED <<dialect, secret, preempt_privilege, delimeter_list, todo, base_prompt,
                 base_pattern, err, result, writes, steps, calls, call, log, after_timeout,
                 potential_matches, rule_idx, scores, timeouts, inbox, stream, dev>>

\* A probe entered as a scope whose body calls autodetect()
NextScoped ==
  \/ ScopedEnter
  \/ ScopedAutodetect
  \/ ScopedExit
  \/ DevRespond
  \/ ReadChunk
  \/ ReadTimeout
  \/ EstablishDone
  \/ FindPromptDone
  \/ DisablePagingDone
  \/ AutodetectStd
  \/ ProbeDone
  \/ ProbeFailed
  \/ DisconnectAfterMatch
SpecScoped == InitDetect /\ [][NextScoped]_vars

OpenTransports == {i \in DOMAIN transports : transports[i] = "open"}
\* C38 as stated: a probe never has two connections open, none of them is
\* closed twice, and when the scope is left every connection is closed
C38_OneTransportClosedOnce ==
  /\ Cardinality(OpenTransports) <= 1
  /\ \A i \in DOMAIN transports : transports[i] /= "closed twice"
  /\ op = "exit" => OpenTransports = {}
\* what the code does: autodetect() in the scope opens a second connection, the
\* one of __aenter__ is never closed, and after a match the second one is
\* closed by autodetect and again by __aexit__
C38_FirstLeftOpen ==
  (dialect = "autodetect" /\ Len(transports) = 2) =>
     /\ transports[1] = "open"
     /\ (op = "exit" /\ potential_matches /= <<>>) => transports[2] = "closed twice"
C38_ClosedTwice ==
  /\ dialect = "autodetect"
  /\ op = "exit"
  /\ transports = <<"open", "closed twice">>

\* ------------------------------------------- IOS XR after a failed commit
\* the device reads a line that was written before the connection was closed;
\* what it prints is read by nobody
DevDrain ==
  /\ inbox /= <<>>
  /\ transports /= <<>>
  /\ transports[Len(transports)] = "closed"
  /\ \E r \in device_replies(dev, Head(inbox)) : dev' = r.dev
  /\ inbox' = Tail(inbox)
  /\ UNCHANGED <<dialect, secret, preempt_privilege, delimeter_list, op, pc, todo, output, found,
                 base_prompt, base_pattern, err, result, writes, transports, steps, calls, call,
                 log, after_timeout, potential_matches, rule_idx, scores, timeouts, stream>>

\* The IOS XR session of SpecXR, and a device that reads to the end what it was sent
NextAbort == NextXR \/ DevDrain
SpecAbort == InitXR /\ [][NextAbort]_vars

AbortLine == normalize_cmd(dialect, abort_command)
\* send_config_set raised CommitError and the scope has not been left yet
CommitErrorRaisedInBody ==
  dialect = "cisco_ios_xr" /\ op = "send_config_set" /\ pc = "idle" /\ err = "CommitError"

\* C39: when send_config_set on IOS XR has raised CommitError the device is in
\* configuration mode with the changes pending and neither `end` nor `abort`
\* was written; from then on the changes are discarded only by the device
\* reading the `abort` of the cleanup; and leaving the scope writes `abort` to
\* the open connection and closes it
C39_OnlyAbortDiscards ==
  /\ [](CommitErrorRaisedInBody =>
          /\ dev.mode = "config"
          /\ dev.dirty
          /\ \A i \in DOMAIN writes :
               writes[i] \notin {AbortLine, normalize_cmd(dialect, config_exit(dialect))})
  /\ [][(dialect = "cisco_ios_xr" /\ err = "CommitError" /\ dev.dirty /\ ~dev'.dirty) =>
          /\ op = "exit"
          /\ Head(inbox) = AbortLine]_vars
  /\ [][(dialect = "cisco_ios_xr" /\ op /= "exit" /\ op' = "exit") =>
          /\ ConnOpen
          /\ writes' = Append(writes, AbortLine)
          /\ transports' = close_transport(transports)]_vars
\* the scope was left after a CommitError and the device has read the `abort`:
\* the changes are gone and the device is out of configuration mode
C39_Witness ==
  /\ dialect = "cisco_ios_xr"
  /\ op = "exit"
  /\ err = "CommitError"
  /\ writes[Len(writes)] = AbortLine
  /\ transports[Len(transports)] = "closed"
  /\ inbox = <<>>
  /\ dev.mode = "enable"
  /\ ~dev.dirty

\* ------------------------------------- transitions that have nothing to do
\* The IOS session of SpecConfig and the Comware and JunOS sessions of SpecWrap:
\* the mode operations are called in every mode the device can be in
InitSkip == InitConfig \/ InitWrap
NextSkip ==
  \/ NextConfig
  \/ ComwareSendConfigSet
  \/ JunosSendConfigSet
  \/ CliChecked1
  \/ JunosCommitted
SpecSkip == InitSkip /\ [][NextSkip]_vars

\* the step a mode operation takes after its first check
FirstCheckOver(label) == pc = label /\ found /\ pc' /= pc
\* the step does not write `line`: it writes nothing, or one other line
NotWritten(line) ==
  \/ writes' = writes
  \/ Len(writes') = Len(writes) + 1 /\ writes'[Len(writes')] /= normalize_cmd(dialect, line)
\* the operation returns "" to the body and has written nothing but its empty line
ReturnsEmpty == pc' = "idle" /\ err' = "none" /\ result' = <<>> /\ writes' = writes
\* the lines `line` among the writes
LinesOf(line) == {i \in DOMAIN writes : writes[i] = normalize_cmd(dialect, line)}

C40_EnableSkipped ==
  /\ dialect = "cisco_ios"
  /\ op = "enable_mode" /\ pc = "idle" /\ err = "none" /\ result = <<>>
  /\ calls = 1
  /\ timeouts = 0
  /\ Cardinality(LinesOf(priv_enter(dialect))) <= 1
  /\ dev.mode = "enable"
\* exit_enable_mode called twice: `disable` was written once
C40_ExitEnableSkipped ==
  /\ dialect = "cisco_ios"
  /\ op = "exit_enable_mode" /\ pc = "idle" /\ err = "none" /\ result = <<>>
  /\ calls = 2
  /\ timeouts = 0
  /\ Cardinality(LinesOf(priv_exit(dialect))) = 1
  /\ dev.mode = "user"
\* a second send_config_set on a JunOS device left in configuration mode
C40_JunosSkipped ==
  /\ dialect = "juniper_junos"
  /\ ConfigSetReturned
  /\ calls = 2
  /\ timeouts = 0
  /\ Cardinality(LinesOf(junos_config_enter)) = 1
====
